---- MODULE Spec2Model ----
(***************************************************************************)
(* Model of the alpaca-rs invocation engine (src/src/action.rs and the    *)
(* built-in actions).  A text is a sequence of tokens; every token stands *)
(* for a fixed piece of source text.  JSON values, the fence scanner,      *)
(* the registry and the dispatcher are computed as the code computes them.*)
(***************************************************************************)
EXTENDS Integers, Sequences, FiniteSets, TLC

(***************************************************************************)
(* Tokens                                                                  *)
(***************************************************************************)
\* the three backticks that open and close a fence (a backtick cannot be
\* written inside a TLA+ string, so the token is named)
Fence == "<fence>"
\* one backtick
Backtick == "<backtick>"
\* the tag that follows the opening fence of a structured block
Tag == "json"
\* whitespace characters
NL == "\n"
SP == " "
\* the two spaces of one level of indentation
SP2 == "  "
Ws == {SP, SP2, NL}
\* the 12 ASCII characters  <0xC2><0xA0>  that parse() replaces by a space
NBSP == "<0xC2><0xA0>"
\* a double quote that opens or closes a JSON string written out token by token
Quote == "\""
\* free prose
Prose == "x"
\* complete JSON string literals, quotes included: "action", "echo", ...
StrLits == {"action", "action_name", "alpha", "describe_action", "echo",
            "hi", "list_actions", "note", "read_directory", "read_file",
            "regex", "file_name", "pattern", "input", "(", "cd",
            "function", "arguments", "dir"}
\* complete JSON number literals
NumLits == {"5"}

\* ascending byte order of the strings the program sorts or keeps sorted
StringOrder == <<"(", "action", "action_name", "actions", "alpha", "arguments",
                 "available_actions", "cd", "describe_action", "dir", "echo", "error",
                 "file_name", "function", "hi", "home", "input", "list_actions",
                 "mnt", "note", "pattern", "read_directory", "read_file", "regex",
                 "sub">>

Rank(s) == CHOOSE i \in 1..Len(StringOrder) : StringOrder[i] = s

\* str::cmp restricted to the strings of StringOrder
StrLess(a, b) == Rank(a) < Rank(b)

(***************************************************************************)
(* serde_json::Value                                                       *)
(***************************************************************************)
\* A value is [type, str, fields]: str holds the tokens of a string or
\* number, fields the members of an object as a sequence of [key, val]
\* in ascending key order (serde_json's Map is a BTreeMap).
JNull == [type |-> "null", str |-> <<>>, fields |-> <<>>]
JString(s) == [type |-> "string", str |-> s, fields |-> <<>>]
JNumber(s) == [type |-> "number", str |-> s, fields |-> <<>>]
JBool(s) == [type |-> "bool", str |-> s, fields |-> <<>>]
JObject(fs) == [type |-> "object", str |-> <<>>, fields |-> fs]
\* an array keeps its elements in fields, in order, under the empty key
JArray(vs) == [type |-> "array", str |-> <<>>,
               fields |-> [i \in 1..Len(vs) |-> [key |-> "", val |-> vs[i]]]]

\* Map::insert: replaces the value of an existing key, else inserts in key order
MapInsert(fs, k, v) ==
    IF \E i \in 1..Len(fs) : fs[i].key = k
    THEN [i \in 1..Len(fs) |-> IF fs[i].key = k THEN [key |-> k, val |-> v] ELSE fs[i]]
    ELSE LET n == Cardinality({i \in 1..Len(fs) : StrLess(fs[i].key, k)})
         IN  SubSeq(fs, 1, n) \o <<[key |-> k, val |-> v]>> \o SubSeq(fs, n + 1, Len(fs))

\* Value's Index<&str>: the member of an object, Null for anything else
ValueIndex(v, k) ==
    IF v.type = "object" /\ \E i \in 1..Len(v.fields) : v.fields[i].key = k
    THEN v.fields[CHOOSE i \in 1..Len(v.fields) : v.fields[i].key = k].val
    ELSE JNull

\* Value::get: Some(member) or None
ValueHas(v, k) == v.type = "object" /\ \E i \in 1..Len(v.fields) : v.fields[i].key = k

\* Value::as_str: Some(str) for a string, None otherwise
IsStr(v) == v.type = "string"

\* first position at or after i that holds no whitespace (Len(t) + 1 if none)
SkipWs(t, i) ==
    IF \E j \in i..Len(t) : t[j] \notin Ws
    THEN CHOOSE j \in i..Len(t) : t[j] \notin Ws /\ \A k \in i..(j - 1) : t[k] \in Ws
    ELSE Len(t) + 1

ParseFail == [ok |-> FALSE, val |-> JNull, next |-> 0]

\* the parser's reading of the escapes inside a string
Unescape(s) == [i \in 1..Len(s) |-> IF s[i] = "\\n" THEN NL
                                    ELSE IF s[i] = "\\\"" THEN Quote ELSE s[i]]

RECURSIVE ParseValue(_, _), ParseMembers(_, _, _), ParseElements(_, _, _)

\* one JSON value starting at or after position i
ParseValue(t, i) ==
    LET j == SkipWs(t, i) IN
    IF j > Len(t) THEN ParseFail
    ELSE IF t[j] \in StrLits THEN [ok |-> TRUE, val |-> JString(<<t[j]>>), next |-> j + 1]
    ELSE IF t[j] \in NumLits THEN [ok |-> TRUE, val |-> JNumber(<<t[j]>>), next |-> j + 1]
    ELSE IF t[j] = "null" THEN [ok |-> TRUE, val |-> JNull, next |-> j + 1]
    ELSE IF t[j] \in {"true", "false"}
         THEN [ok |-> TRUE, val |-> JBool(<<t[j]>>), next |-> j + 1]
    ELSE IF t[j] = Quote THEN
        IF \E k \in (j + 1)..Len(t) : t[k] = Quote \/ t[k] \in StrLits \/ t[k] = NL
        THEN LET k == CHOOSE k \in (j + 1)..Len(t) :
                        /\ t[k] = Quote \/ t[k] \in StrLits \/ t[k] = NL
                        /\ \A m \in (j + 1)..(k - 1) :
                              ~(t[m] = Quote \/ t[m] \in StrLits \/ t[m] = NL)
             IN  IF t[k] = Quote
                 THEN [ok |-> TRUE, val |-> JString(Unescape(SubSeq(t, j + 1, k - 1))),
                       next |-> k + 1]
                 ELSE ParseFail
        ELSE ParseFail
    ELSE IF t[j] = "{" THEN
        LET k == SkipWs(t, j + 1) IN
        IF k <= Len(t) /\ t[k] = "}"
        THEN [ok |-> TRUE, val |-> JObject(<<>>), next |-> k + 1]
        ELSE ParseMembers(t, j + 1, <<>>)
    ELSE IF t[j] = "[" THEN
        LET k == SkipWs(t, j + 1) IN
        IF k <= Len(t) /\ t[k] = "]"
        THEN [ok |-> TRUE, val |-> JArray(<<>>), next |-> k + 1]
        ELSE ParseElements(t, j + 1, <<>>)
    ELSE ParseFail

\* the members of an object after "{" or ",": key ":" value, then "," or "}"
ParseMembers(t, i, fs) ==
    LET j == SkipWs(t, i) IN
    IF j > Len(t) \/ t[j] \notin StrLits THEN ParseFail
    ELSE LET c == SkipWs(t, j + 1) IN
         IF c > Len(t) \/ t[c] # ":" THEN ParseFail
         ELSE LET r == ParseValue(t, c + 1) IN
              IF ~r.ok THEN ParseFail
              ELSE LET e == SkipWs(t, r.next)
                       gs == MapInsert(fs, t[j], r.val)
                   IN  IF e > Len(t) THEN ParseFail
                       ELSE IF t[e] = "}" THEN [ok |-> TRUE, val |-> JObject(gs), next |-> e + 1]
                       ELSE IF t[e] = "," THEN ParseMembers(t, e + 1, gs)
                       ELSE ParseFail

\* the elements of an array after "[" or ",": value, then "," or "]"
ParseElements(t, i, vs) ==
    LET r == ParseValue(t, i) IN
    IF ~r.ok THEN ParseFail
    ELSE LET e == SkipWs(t, r.next) IN
         IF e > Len(t) THEN ParseFail
         ELSE IF t[e] = "]" THEN [ok |-> TRUE, val |-> JArray(Append(vs, r.val)), next |-> e + 1]
         ELSE IF t[e] = "," THEN ParseElements(t, e + 1, Append(vs, r.val))
         ELSE ParseFail

\* serde_json::from_str: one value, then only whitespace up to the end
from_str(t) ==
    LET r == ParseValue(t, 1) IN
    IF r.ok /\ SkipWs(t, r.next) > Len(t)
    THEN [ok |-> TRUE, val |-> r.val]
    ELSE [ok |-> FALSE, val |-> JNull]

\* a serializer that writes every character of a string as it is
Escape_nothing(s) == s

\* the escapes of the serializer inside a string: a line feed and a double
\* quote are written with a backslash
Escape(s) == [i \in 1..Len(s) |-> IF s[i] = NL THEN "\\n"
                                  ELSE IF s[i] = Quote THEN "\\\"" ELSE s[i]]

RECURSIVE to_string(_)

\* serde_json::to_string: the compact text of a value, members in key order
to_string(v) ==
    IF v.type = "null" THEN <<"null">>
    ELSE IF v.type \in {"number", "bool"} THEN v.str
    ELSE IF v.type = "string" THEN
        IF Len(v.str) = 1 /\ v.str[1] \in StrLits THEN v.str
        ELSE <<Quote>> \o Escape(v.str) \o <<Quote>>
    ELSE LET RECURSIVE Members(_)
             Members(i) ==
                 IF i > Len(v.fields) THEN <<>>
                 ELSE (IF i > 1 THEN <<",">> ELSE <<>>)
                      \o (IF v.type = "object" THEN <<v.fields[i].key, ":">> ELSE <<>>)
                      \o to_string(v.fields[i].val)
                      \o Members(i + 1)
         IN  IF v.type = "object"
             THEN <<"{">> \o Members(1) \o <<"}">>
             ELSE <<"[">> \o Members(1) \o <<"]">>

\* one level of the two-space indentation of the pretty printer
Indent(d) == [i \in 1..d |-> SP2]

RECURSIVE to_string_pretty_at(_, _)

\* serde_json::to_string_pretty at nesting depth d: one member per line
to_string_pretty_at(v, d) ==
    IF v.type \notin {"object", "array"} THEN to_string(v)
    ELSE LET open == IF v.type = "object" THEN "{" ELSE "["
             close == IF v.type = "object" THEN "}" ELSE "]"
             RECURSIVE Members(_)
             Members(i) ==
                 IF i > Len(v.fields) THEN <<>>
                 ELSE (IF i > 1 THEN <<",">> ELSE <<>>)
                      \o <<NL>> \o Indent(d + 1)
                      \o (IF v.type = "object" THEN <<v.fields[i].key, ":", SP>> ELSE <<>>)
                      \o to_string_pretty_at(v.fields[i].val, d + 1)
                      \o Members(i + 1)
         IN  IF Len(v.fields) = 0 THEN <<open, close>>
             ELSE <<open>> \o Members(1) \o <<NL>> \o Indent(d) \o <<close>>

to_string_pretty(v) == to_string_pretty_at(v, 0)

(***************************************************************************)
(* Capabilities                                                            *)
(***************************************************************************)
\* A capability (Box<dyn AlpacaActionTrait>) is [name, impl]: impl names the
\* type that implements the trait.
ActionList == [name |-> "list_actions", impl |-> "AlpacaActionList"]
ActionDescribe == [name |-> "describe_action", impl |-> "AlpacaActionDescribe"]
ActionReadDirectory == [name |-> "read_directory", impl |-> "AlpacaActionReadDirectory"]
ActionReadFile == [name |-> "read_file", impl |-> "AlpacaActionReadFile"]
ActionRegex == [name |-> "regex", impl |-> "AlpacaActionRegex"]

\* capabilities a host registers itself: two implementations under the name
\* echo and one under the name alpha
HostActions == {[name |-> "echo", impl |-> "EchoV1"],
                [name |-> "echo", impl |-> "EchoV2"],
                [name |-> "alpha", impl |-> "Alpha"]}

\* a capability of the host with an effect outside the registry: it changes
\* the current directory of the process
ChangeDir == [name |-> "cd", impl |-> "ChangeDir"]

\* no capability
NoAction == [name |-> "", impl |-> ""]

\* AlpacaActionTrait::description: the DESCRIPTION text of the implementation
description(cap) == <<"DESCRIPTION of", cap.impl>>

(***************************************************************************)
(* AlpacaActions                                                           *)
(***************************************************************************)
\* HashMap::get on the registry: the entries are kept as a sequence with
\* unique names, in the order keys() yields them
Registered(acts, name) == \E i \in 1..Len(acts) : <<acts[i].name>> = name

Lookup(acts, name) == acts[CHOOSE i \in 1..Len(acts) : <<acts[i].name>> = name]

\* add_action that leaves an entry of the same name as it is
add_action_keeping_first(acts, cap) ==
    IF \E i \in 1..Len(acts) : acts[i].name = cap.name
    THEN acts
    ELSE Append(acts, cap)

\* HashMap::insert: replaces the entry of the same name, else adds one
add_action(acts, cap) ==
    IF \E i \in 1..Len(acts) : acts[i].name = cap.name
    THEN [i \in 1..Len(acts) |-> IF acts[i].name = cap.name THEN cap ELSE acts[i]]
    ELSE Append(acts, cap)

\* AlpacaActions::new: the five built-in capabilities
new == add_action(add_action(add_action(add_action(add_action(<<>>,
           ActionList), ActionDescribe), ActionReadDirectory), ActionReadFile), ActionRegex)

\* Vec::sort on strings
RECURSIVE sort(_)
sort(names) ==
    IF Len(names) = 0 THEN <<>>
    ELSE LET rest == sort(Tail(names))
             n == Cardinality({i \in 1..Len(rest) : ~StrLess(Head(names), rest[i])})
         IN  SubSeq(rest, 1, n) \o <<Head(names)>> \o SubSeq(rest, n + 1, Len(rest))

\* action_names without the sort
action_names_unsorted(acts) == [i \in 1..Len(acts) |-> acts[i].name]

\* AlpacaActions::action_names: the keys, sorted
action_names(acts) == sort([i \in 1..Len(acts) |-> acts[i].name])

\* AlpacaActions::blockify
blockify(object) == <<Fence, Tag, NL>> \o to_string_pretty(object) \o <<NL, Fence, NL>>

NamesArray(names) == JArray([i \in 1..Len(names) |-> JString(<<names[i]>>)])

\* AlpacaActions::action_list
action_list(acts) ==
    <<"## Available Actions", NL, NL, "Here is the list of available actions:", NL>>
    \o blockify(JObject(<<[key |-> "actions", val |-> NamesArray(action_names(acts))]>>))

\* AlpacaActions::response_action_not_found
response_action_not_found(from, action) ==
    blockify(JObject(<<[key |-> "error",
        val |-> JString(<<"Action '">> \o action
                 \o <<"' not found. Use the action 'list_actions' to list all available actions.">>)]>>))

\* AlpacaActions::describe_action
describe_action(acts, action_name) ==
    IF Registered(acts, action_name)
    THEN description(Lookup(acts, action_name))
    ELSE response_action_not_found(<<"describe_action">>, action_name)

\* ACTION_NOT_FOUND: the text that shows how to invoke list_actions
ACTION_NOT_FOUND ==
    <<NL, "Use the ", Backtick, "list_actions", Backtick,
      " action to get a list of all of the available actions.", NL,
      "Here is an example of how to invoke it:", NL,
      Fence, Tag, NL, "{", NL, "    ", "action", ":", SP, "list_actions", NL, "}", NL,
      Fence, NL>>

\* string_action_response without its header line
string_action_response_bare(action, response) == <<NL>> \o response \o <<NL>>

\* string_action_response
string_action_response(action, response) ==
    <<NL, "# ", Backtick>> \o action \o <<Backtick, " Action Response", NL, NL>>
    \o response \o <<NL>>

(***************************************************************************)
(* The built-in capabilities                                               *)
(***************************************************************************)
\* the object {"error": message}
ErrorObject(message) == JObject(<<[key |-> "error", val |-> JString(message)]>>)

\* a list_actions that answers with the names of a new registry, whatever
\* registry it is given
ActionListInvoke_of_new(object, context) ==
    <<"## Success", NL, NL, "Here is the list of available actions:", NL>>
    \o blockify(JObject(<<[key |-> "available_actions",
                           val |-> NamesArray(action_names(new))]>>))
    \o <<NL>>

\* AlpacaActionList::invoke
ActionListInvoke(object, context) ==
    <<"## Success", NL, NL, "Here is the list of available actions:", NL>>
    \o blockify(JObject(<<[key |-> "available_actions",
                           val |-> NamesArray(action_names(context))]>>))
    \o <<NL>>

\* AlpacaActionDescribe::invoke
ActionDescribeInvoke(object, context) ==
    IF IsStr(ValueIndex(object, "action_name"))
    THEN describe_action(context, ValueIndex(object, "action_name").str)
    ELSE blockify(ErrorObject(<<"Request is missing the 'action_name' field.", NL>>
                              \o description(ActionDescribe) \o <<NL>>))

\* format_response of action_read_directory.rs and action_regex.rs
format_response(status, response) ==
    <<IF status = "Error" THEN "## Error" ELSE "## Success", NL, NL>> \o response \o <<NL>>

\* std::env::current_dir: the current directory of the process
VARIABLE cwd

\* the directories of the host's file system: the directory the process
\* starts in and its one subdirectory
Directories == {"root", "alpha"}

\* the files of a directory, as std::fs::read_dir yields them
FilesOf(dir) == IF dir = "root" THEN <<"hi">> ELSE <<"note", "echo">>

\* the subdirectories of a directory
DirectoriesOf(dir) == IF dir = "root" THEN <<"alpha">> ELSE <<>>

\* the files and the subdirectories of the current directory
DirFiles == FilesOf(cwd)
DirDirectories == DirectoriesOf(cwd)

\* the object read_directory answers with for the given entries
Listing(files, directories) ==
    JObject(<<[key |-> "directories", val |-> NamesArray(sort(directories))],
              [key |-> "files", val |-> NamesArray(sort(files))]>>)

\* AlpacaActionReadDirectory::invoke
ActionReadDirectoryInvoke(object, context) ==
    IF object.type = "object" /\ Len(object.fields) > 1
    THEN format_response("Error", <<"The action was invoked with incorrect arguments.">>)
         \o <<"EXAMPLE_USAGE">>
    ELSE format_response("Success",
             <<"Here are the files and directories in the current directory:", NL>>
             \o blockify(Listing(DirFiles, DirDirectories)))

\* AlpacaActionReadFile::read_file: std::fs::read_to_string gives the content
\* of a file of the current directory and an error for every other name
read_file(file_name) ==
    IF \E i \in 1..Len(DirFiles) : <<DirFiles[i]>> = file_name
    THEN [ok |-> TRUE, val |-> <<"content of ">> \o file_name]
    ELSE [ok |-> FALSE,
          val |-> <<"Failed to read file '">> \o file_name
                  \o <<"': ", "io::Error", ".", NL,
                       "Please ensure the file name is correct and try again.">>]

\* AlpacaActionReadFile::invoke
ActionReadFileInvoke(object, context) ==
    LET filename == ValueIndex(object, "file_name") IN
    IF ~IsStr(filename)
    THEN blockify(ErrorObject(
             <<"The 'file_name' field is missing from the request. Please review the following description and try again.", NL, NL>>
             \o description(ActionReadFile) \o <<NL>>))
    ELSE IF read_file(filename.str).ok
    THEN blockify(JObject(<<[key |-> "content", val |-> JString(read_file(filename.str).val)]>>))
    ELSE blockify(ErrorObject(read_file(filename.str).val))

\* Regex::new: of the patterns at hand the single opening parenthesis does
\* not compile, and every other one is a word that stands for itself
RegexCompiles(pattern) == pattern # <<"(">>

\* the words that hold the word action
HoldAction == {"action_name", "describe_action", "list_actions"}

\* Regex::find_iter for a pattern that is a word, in a text that is a word
find_iter(pattern, text) ==
    IF pattern = text \/ (pattern = <<"action">> /\ Len(text) = 1 /\ text[1] \in HoldAction)
    THEN <<pattern[1]>>
    ELSE <<>>

\* the entry of the results array for the text value at 0-based place index
RegexResult(pattern, text_value, index) ==
    IF IsStr(text_value)
    THEN JObject(<<[key |-> "input", val |-> text_value],
                   [key |-> "matches", val |-> NamesArray(find_iter(pattern, text_value.str))]>>)
    ELSE JObject(<<[key |-> "error", val |-> JString(<<"Not a string value">>)],
                   [key |-> "index", val |-> JNumber(<<ToString(index)>>)]>>)

RECURSIVE TotalMatches(_, _, _)
TotalMatches(pattern, texts, i) ==
    IF i > Len(texts) THEN 0
    ELSE (IF IsStr(texts[i].val) THEN Len(find_iter(pattern, texts[i].val.str)) ELSE 0)
         + TotalMatches(pattern, texts, i + 1)

\* AlpacaActionRegex::invoke
ActionRegexInvoke(object, context) ==
    LET pattern == ValueIndex(object, "pattern")
        input == ValueIndex(object, "input")
        missing(what) == <<"Missing '", what, "' parameter; please use ", Backtick,
                           "describe_action", Backtick, " to see the correct parameters.">>
    IN  IF ~IsStr(pattern) THEN format_response("Error", missing("pattern"))
        ELSE IF ~ValueHas(object, "input") THEN format_response("Error", missing("input"))
        ELSE IF ~RegexCompiles(pattern.str)
        THEN format_response("Error",
                 blockify(ErrorObject(<<"Invalid regex pattern: ", "regex::Error">>)))
        ELSE IF IsStr(input)
        THEN format_response("Success",
                 <<"Regular expression results for pattern '">> \o pattern.str
                 \o <<"' in the provided input:", NL>>
                 \o blockify(JObject(<<[key |-> "matches",
                                        val |-> NamesArray(find_iter(pattern.str, input.str))]>>)))
        ELSE IF input.type = "array"
        THEN format_response("Success",
                 <<"Regular expression results for pattern '">> \o pattern.str
                 \o <<"' across ", ToString(Len(input.fields)), " text items:", NL>>
                 \o blockify(JObject(<<
                        [key |-> "results",
                         val |-> JArray([i \in 1..Len(input.fields) |->
                                    RegexResult(pattern.str, input.fields[i].val, i - 1)])],
                        [key |-> "total_count",
                         val |-> JNumber(<<ToString(TotalMatches(pattern.str, input.fields, 1))>>)]>>)))
        ELSE format_response("Error",
                 <<"The 'text' parameter must be a string or an array of strings; please use ",
                   Backtick, "describe_action", Backtick, " to see the correct parameters.">>)

\* the current directory after the capability has been invoked with the
\* object: the host's cd enters the subdirectory named by file_name, or goes
\* back to the starting directory when there is no file_name; no other
\* capability changes the directory
Effect(cap, object, dir) ==
    IF cap.impl # "ChangeDir" THEN dir
    ELSE IF ~ValueHas(object, "file_name") THEN "root"
    ELSE IF /\ IsStr(ValueIndex(object, "file_name"))
            /\ \E i \in 1..Len(DirectoriesOf(dir)) :
                  <<DirectoriesOf(dir)[i]>> = ValueIndex(object, "file_name").str
         THEN ValueIndex(object, "file_name").str[1]
    ELSE dir

\* AlpacaActionTrait::invoke, dispatched on the implementing type; what a
\* capability of the host answers is the host's: a text of its own
TraitInvoke(cap, object, context) ==
    CASE cap.impl = "AlpacaActionList" -> ActionListInvoke(object, context)
      [] cap.impl = "AlpacaActionDescribe" -> ActionDescribeInvoke(object, context)
      [] cap.impl = "AlpacaActionReadDirectory" -> ActionReadDirectoryInvoke(object, context)
      [] cap.impl = "AlpacaActionReadFile" -> ActionReadFileInvoke(object, context)
      [] cap.impl = "AlpacaActionRegex" -> ActionRegexInvoke(object, context)
      [] OTHER -> <<"response of", cap.impl>>

(***************************************************************************)
(* AlpacaActions::parse and AlpacaActions::invoke                          *)
(***************************************************************************)
\* what the capture group ([\s\S]*?) between \s* and \s* holds: the inner
\* tokens without leading and trailing whitespace
TrimWs(t) ==
    LET a == SkipWs(t, 1) IN
    IF a > Len(t) THEN <<>>
    ELSE SubSeq(t, a, CHOOSE b \in a..Len(t) :
                          t[b] \notin Ws /\ \A k \in (b + 1)..Len(t) : t[k] \in Ws)

RECURSIVE captures_iter_reopening(_, _)

\* a captures_iter for which a fence that opens a span does not close one
captures_iter_reopening(t, cursor) ==
    IF ~\E i \in cursor..(Len(t) - 1) : t[i] = Fence /\ t[i + 1] = Tag THEN <<>>
    ELSE LET i == CHOOSE i \in cursor..(Len(t) - 1) :
                     /\ t[i] = Fence /\ t[i + 1] = Tag
                     /\ \A k \in cursor..(i - 1) : ~(t[k] = Fence /\ t[k + 1] = Tag)
             Closes(j) == t[j] = Fence /\ (j = Len(t) \/ t[j + 1] # Tag)
         IN  IF ~\E j \in (i + 2)..Len(t) : Closes(j) THEN <<>>
             ELSE LET j == CHOOSE j \in (i + 2)..Len(t) :
                              Closes(j) /\ \A k \in (i + 2)..(j - 1) : ~Closes(k)
                  IN  <<TrimWs(SubSeq(t, i + 2, j - 1))>>
                      \o captures_iter_reopening(t, j + 1)

RECURSIVE captures_iter(_, _)

\* Regex::captures_iter for the fence pattern, from position cursor on:
\* leftmost opening fence with its tag, lazily up to the first fence after
\* it, then on from behind that fence
captures_iter(t, cursor) ==
    IF ~\E i \in cursor..(Len(t) - 1) : t[i] = Fence /\ t[i + 1] = Tag THEN <<>>
    ELSE LET i == CHOOSE i \in cursor..(Len(t) - 1) :
                     /\ t[i] = Fence /\ t[i + 1] = Tag
                     /\ \A k \in cursor..(i - 1) : ~(t[k] = Fence /\ t[k + 1] = Tag)
         IN  IF ~\E j \in (i + 2)..Len(t) : t[j] = Fence THEN <<>>
             ELSE LET j == CHOOSE j \in (i + 2)..Len(t) :
                              t[j] = Fence /\ \A k \in (i + 2)..(j - 1) : t[k] # Fence
                  IN  <<TrimWs(SubSeq(t, i + 2, j - 1))>> \o captures_iter(t, j + 1)

\* str::replace of the stray byte text by a space
ReplaceNbsp(t) == [i \in 1..Len(t) |-> IF t[i] = NBSP THEN SP ELSE t[i]]

\* AlpacaActions::remove_duplicates: the first of the values that serialize alike
RECURSIVE remove_duplicates_from(_, _, _)
remove_duplicates_from(values, i, seen) ==
    IF i > Len(values) THEN <<>>
    ELSE LET value_str == to_string(values[i]) IN
         IF value_str \in seen
         THEN remove_duplicates_from(values, i + 1, seen)
         ELSE <<values[i]>> \o remove_duplicates_from(values, i + 1, seen \cup {value_str})

\* remove_duplicates that keeps every value
remove_duplicates_keeping_all(values) == values

remove_duplicates(values) == remove_duplicates_from(values, 1, {})

\* a loop over the captures that ends at the first span that does not parse
RECURSIVE ParsedSpans_stopping(_, _)
ParsedSpans_stopping(caps, i) ==
    IF i > Len(caps) THEN <<>>
    ELSE LET r == from_str(ReplaceNbsp(caps[i])) IN
         IF r.ok THEN <<r.val>> \o ParsedSpans_stopping(caps, i + 1) ELSE <<>>

\* the values of the spans that parse, in order
RECURSIVE ParsedSpans(_, _)
ParsedSpans(caps, i) ==
    IF i > Len(caps) THEN <<>>
    ELSE LET r == from_str(ReplaceNbsp(caps[i])) IN
         (IF r.ok THEN <<r.val>> ELSE <<>>) \o ParsedSpans(caps, i + 1)

\* the results vector of parse before the duplicates are removed
ParseResults(message) ==
    LET results == ParsedSpans(captures_iter(message, 1), 1) IN
    IF results = <<>>
    THEN (IF from_str(message).ok THEN <<from_str(message).val>> ELSE <<>>)
    ELSE results

\* parse that hands the blocks back last first
parse_reversed(message) ==
    LET blocks == remove_duplicates(ParseResults(message))
    IN  [k \in 1..Len(blocks) |-> blocks[Len(blocks) + 1 - k]]

\* AlpacaActions::parse
parse(message) == remove_duplicates(ParseResults(message))

\* what the closure of invoke does for one block with a string action: the
\* capability it calls, if the name is registered, and the response text
DispatchOne(acts, block) ==
    LET name == ValueIndex(block, "action").str IN
    IF Registered(acts, name)
    THEN [found |-> TRUE, action |-> Lookup(acts, name), object |-> block,
          response |-> string_action_response(name,
                           TraitInvoke(Lookup(acts, name), block, acts))]
    ELSE [found |-> FALSE, action |-> NoAction, object |-> block,
          response |-> string_action_response(name,
                           <<"## Error", NL, NL, "Action '">> \o name
                           \o <<"' not found.", NL, NL>> \o action_list(acts))]

\* a dispatch that gives up at the first name that is not registered
RECURSIVE Dispatch_stopping(_, _, _)
Dispatch_stopping(acts, blocks, i) ==
    IF i > Len(blocks) THEN <<>>
    ELSE IF ~IsStr(ValueIndex(blocks[i], "action"))
         THEN Dispatch_stopping(acts, blocks, i + 1)
    ELSE IF ~DispatchOne(acts, blocks[i]).found
         THEN <<DispatchOne(acts, blocks[i])>>
    ELSE <<DispatchOne(acts, blocks[i])>> \o Dispatch_stopping(acts, blocks, i + 1)

\* a dispatch that answers a block without a string action with an error
RECURSIVE Dispatch_reporting_missing(_, _, _)
Dispatch_reporting_missing(acts, blocks, i) ==
    IF i > Len(blocks) THEN <<>>
    ELSE (IF IsStr(ValueIndex(blocks[i], "action"))
          THEN <<DispatchOne(acts, blocks[i])>>
          ELSE <<[found |-> FALSE, action |-> NoAction, object |-> blocks[i],
                  response |-> string_action_response(<<>>,
                                   <<"## Error", NL, NL, "The request names no action.">>)]>>)
         \o Dispatch_reporting_missing(acts, blocks, i + 1)

\* a dispatch that takes whatever stands under action for a name
RECURSIVE Dispatch_any_action(_, _, _)
Dispatch_any_action(acts, blocks, i) ==
    IF i > Len(blocks) THEN <<>>
    ELSE (IF ValueHas(blocks[i], "action")
          THEN <<DispatchOne(acts, blocks[i])>> ELSE <<>>)
         \o Dispatch_any_action(acts, blocks, i + 1)

\* the filter_map of invoke over the blocks from the i-th on: blocks whose
\* action is no string are passed over
RECURSIVE Dispatch(_, _, _)
Dispatch(acts, blocks, i) ==
    IF i > Len(blocks) THEN <<>>
    ELSE (IF IsStr(ValueIndex(blocks[i], "action"))
          THEN <<DispatchOne(acts, blocks[i])>> ELSE <<>>)
         \o Dispatch(acts, blocks, i + 1)

\* join that puts nothing between the strings
RECURSIVE join_unseparated(_, _)
join_unseparated(strings, sep) ==
    IF Len(strings) = 0 THEN <<>>
    ELSE strings[1] \o join_unseparated(Tail(strings), sep)

\* slice::join
RECURSIVE join(_, _)
join(strings, sep) ==
    IF Len(strings) = 0 THEN <<>>
    ELSE IF Len(strings) = 1 THEN strings[1]
    ELSE strings[1] \o sep \o join(Tail(strings), sep)

None == [some |-> FALSE, text |-> <<>>]
Some(text) == [some |-> TRUE, text |-> text]

\* an invoke that gives up, with nothing returned, when a response is an error
invoke_aborting(acts, message) ==
    LET dispatched == Dispatch(acts, parse(message), 1)
        responses == [k \in 1..Len(dispatched) |-> dispatched[k].response]
    IN  IF responses = <<>>
           \/ \E k \in 1..Len(responses) : \E q \in 1..Len(responses[k]) :
                 responses[k][q] \in {"## Error", "error"}
        THEN None
        ELSE Some(join(responses, <<NL>>))

\* AlpacaActions::invoke
invoke(acts, message) ==
    LET dispatched == Dispatch(acts, parse(message), 1)
        responses == [k \in 1..Len(dispatched) |-> dispatched[k].response]
    IN  IF responses = <<>> THEN None ELSE Some(join(responses, <<NL>>))

\* the calls of AlpacaActionTrait::invoke made during invoke, in order
InvokedBy(acts, message) ==
    LET dispatched == Dispatch(acts, parse(message), 1)
        RECURSIVE Calls(_)
        Calls(k) ==
            IF k > Len(dispatched) THEN <<>>
            ELSE (IF dispatched[k].found
                  THEN <<[action |-> dispatched[k].action, object |-> dispatched[k].object]>>
                  ELSE <<>>) \o Calls(k + 1)
    IN  Calls(1)

(***************************************************************************)
(* AlapacaToolDispatch and AlpacaToolCall                                  *)
(***************************************************************************)
\* the tag of START_MARKER, which is the fence followed by this tag;
\* END_MARKER is the fence
ToolTag == "tool_call"

\* the place of the first START_MARKER at or after search_start, 0 if none
FindStart(message, search_start) ==
    IF \E i \in search_start..(Len(message) - 1) :
          message[i] = Fence /\ message[i + 1] = ToolTag
    THEN CHOOSE i \in search_start..(Len(message) - 1) :
            /\ message[i] = Fence /\ message[i + 1] = ToolTag
            /\ \A k \in search_start..(i - 1) :
                  ~(message[k] = Fence /\ message[k + 1] = ToolTag)
    ELSE 0

\* the place of the first END_MARKER at or after content_start, 0 if none
FindEnd(message, content_start) ==
    IF \E j \in content_start..Len(message) : message[j] = Fence
    THEN CHOOSE j \in content_start..Len(message) :
            message[j] = Fence /\ \A k \in content_start..(j - 1) : message[k] # Fence
    ELSE 0

\* AlapacaToolDispatch::find_tool_calls, from search_start on
RECURSIVE find_tool_calls(_, _)
find_tool_calls(message, search_start) ==
    LET abs_start == FindStart(message, search_start)
        content_start == abs_start + 2
        end == FindEnd(message, content_start)
    IN  IF abs_start = 0 \/ end = 0 THEN <<>>
        ELSE <<TrimWs(SubSeq(message, content_start, end - 1))>>
             \o find_tool_calls(message, end + 1)

\* a filter_map that also leaves out a call equal to an earlier one
ParseToolCalls_deduplicating(texts) ==
    LET parsed == SelectSeq(texts, LAMBDA x : from_str(x).ok)
    IN  remove_duplicates([k \in 1..Len(parsed) |-> from_str(parsed[k]).val])

\* the filter_map of create_tool_calls: AlpacaToolCall::from_str of every
\* text, those that fail left out; a tool call is its object
ParseToolCalls(texts) ==
    LET parsed == SelectSeq(texts, LAMBDA x : from_str(x).ok)
    IN  [k \in 1..Len(parsed) |-> from_str(parsed[k]).val]

\* AlapacaToolDispatch::create_tool_calls
create_tool_calls(message) == ParseToolCalls(find_tool_calls(message, 1))

\* AlpacaToolCall::function
function(object) ==
    IF IsStr(ValueIndex(object, "function"))
    THEN Some(ValueIndex(object, "function").str)
    ELSE None

\* Option<&Value>
NoValue == [some |-> FALSE, val |-> JNull]
SomeValue(v) == [some |-> TRUE, val |-> v]

\* AlpacaToolCall::argument
argument(object, arg_name) ==
    IF ValueHas(object, "arguments") /\ ValueHas(ValueIndex(object, "arguments"), arg_name)
    THEN SomeValue(ValueIndex(ValueIndex(object, "arguments"), arg_name))
    ELSE NoValue

(***************************************************************************)
(* AlpacaEnvironment                                                       *)
(***************************************************************************)
\* the directories of the file system, by their canonical paths
EnvDirectories == {"/", "/home", "/home/sub", "/mnt"}

\* std::env::current_dir() when the environment is made
StartDirectory == "/home"

\* the parent of a directory; the root is its own parent
ParentOf(dir) == IF dir = "/home/sub" THEN "/home" ELSE "/"

\* the files and the directories of a directory as read_dir and file_type
\* tell them; the symbolic link /home/link is of neither kind
EnvFilesOf(dir) == IF dir = "/home" THEN <<"hi">> ELSE <<>>
EnvDirectoriesOf(dir) ==
    IF dir = "/" THEN <<"mnt", "home">>
    ELSE IF dir = "/home" THEN <<"sub">>
    ELSE <<>>

\* what the path dir.join(name) leads to: a directory, with the canonical
\* path of it, a file, or nothing. /home/link is a symbolic link to /mnt,
\* and exists() and is_dir() follow it.
IsSymbolicLink(dir, name) == dir = "/home" /\ name = "link"
NoEntry == [kind |-> "none", canonical |-> ""]
DirEntry(path) == [kind |-> "dir", canonical |-> path]
PathEntry(dir, name) ==
    IF name = "" THEN DirEntry(dir)
    ELSE IF name = ".." THEN DirEntry(ParentOf(dir))
    ELSE IF dir = "/" /\ name = "home" THEN DirEntry("/home")
    ELSE IF dir = "/" /\ name = "mnt" THEN DirEntry("/mnt")
    ELSE IF dir = "/home" /\ name = "sub" THEN DirEntry("/home/sub")
    ELSE IF IsSymbolicLink(dir, name) THEN DirEntry("/mnt")
    ELSE IF dir = "/home" /\ name = "hi" THEN [kind |-> "file", canonical |-> "/home/hi"]
    ELSE NoEntry

\* the object {"current_dir": dir}
CurrentDirObject(dir) == JObject(<<[key |-> "current_dir", val |-> JString(<<dir>>)]>>)

\* an error object that does not name the function
ChangeDirectoryError_bare(message) ==
    JObject(<<[key |-> "error", val |-> JString(message)]>>)

\* the object {"error": message, "function": "change_directory"}
ChangeDirectoryError(message) ==
    JObject(<<[key |-> "error", val |-> JString(message)],
              [key |-> "function", val |-> JString(<<"change_directory">>)]>>)

\* an invoke_change_directory that takes the joined path as current_dir
\* before it is resolved
invoke_change_directory_moving_first(dir, arguments, resolves) ==
    LET subdir_name == IF IsStr(ValueIndex(arguments, "subdir_name"))
                          /\ Len(ValueIndex(arguments, "subdir_name").str) = 1
                       THEN ValueIndex(arguments, "subdir_name").str[1]
                       ELSE ""
        new_path == PathEntry(dir, subdir_name)
    IN  IF ~ValueHas(arguments, "subdir_name")
        THEN [ok |-> FALSE, current_dir |-> dir,
              value |-> ChangeDirectoryError(<<"Missing required argument 'subdir_name'.">>)]
        ELSE IF new_path.kind = "none"
        THEN [ok |-> FALSE, current_dir |-> dir,
              value |-> ChangeDirectoryError(<<"Subdirectory '", subdir_name,
                                               "' does not exist.">>)]
        ELSE IF new_path.kind # "dir"
        THEN [ok |-> FALSE, current_dir |-> dir,
              value |-> ChangeDirectoryError(<<"'", subdir_name, "' is not a directory.">>)]
        ELSE IF ~resolves
        THEN [ok |-> FALSE, current_dir |-> new_path.canonical,
              value |-> ChangeDirectoryError(<<"Failed to resolve path: '", "err", "'.">>)]
        ELSE [ok |-> TRUE, current_dir |-> new_path.canonical,
              value |-> JObject(<<[key |-> "function", val |-> JString(<<"change_directory">>)],
                                  [key |-> "ok", val |-> CurrentDirObject(new_path.canonical)]>>)]

\* AlpacaEnvironment::invoke_change_directory: Ok(value) or Err(value), and
\* current_dir after it. resolves tells whether canonicalize succeeds on a
\* path that exists() and is_dir() have seen: the directory may be gone by
\* then.
invoke_change_directory(dir, arguments, resolves) ==
    LET subdir_name == IF IsStr(ValueIndex(arguments, "subdir_name"))
                          /\ Len(ValueIndex(arguments, "subdir_name").str) = 1
                       THEN ValueIndex(arguments, "subdir_name").str[1]
                       ELSE ""
        new_path == PathEntry(dir, subdir_name)
    IN  IF ~ValueHas(arguments, "subdir_name")
        THEN [ok |-> FALSE, current_dir |-> dir,
              value |-> ChangeDirectoryError(<<"Missing required argument 'subdir_name'.">>)]
        ELSE IF new_path.kind = "none"
        THEN [ok |-> FALSE, current_dir |-> dir,
              value |-> ChangeDirectoryError(<<"Subdirectory '", subdir_name,
                                               "' does not exist.">>)]
        ELSE IF new_path.kind # "dir"
        THEN [ok |-> FALSE, current_dir |-> dir,
              value |-> ChangeDirectoryError(<<"'", subdir_name, "' is not a directory.">>)]
        ELSE IF ~resolves
        THEN [ok |-> FALSE, current_dir |-> dir,
              value |-> ChangeDirectoryError(<<"Failed to resolve path: '", "err", "'.">>)]
        ELSE [ok |-> TRUE, current_dir |-> new_path.canonical,
              value |-> JObject(<<[key |-> "function", val |-> JString(<<"change_directory">>)],
                                  [key |-> "ok", val |-> CurrentDirObject(new_path.canonical)]>>)]

\* AlpacaEnvironment::invoke_get_current_directory
invoke_get_current_directory(dir) ==
    JObject(<<[key |-> "function", val |-> JString(<<"get_current_directory">>)],
              [key |-> "ok", val |-> CurrentDirObject(dir)]>>)

\* AlpacaEnvironment::invoke_list_directory
invoke_list_directory(dir) ==
    JObject(<<[key |-> "function", val |-> JString(<<"list_directory">>)],
              [key |-> "ok", val |->
                  JObject(<<[key |-> "current_dir", val |-> JString(<<dir>>)],
                            [key |-> "directories",
                             val |-> NamesArray(sort(EnvDirectoriesOf(dir)))],
                            [key |-> "files", val |-> NamesArray(sort(EnvFilesOf(dir)))]>>)]>>)

\* a process_invocation that answers as it should and keeps current_dir
process_invocation_staying(dir, request, resolves) ==
    LET function_name == ValueIndex(request, "function")
        arguments == IF ValueHas(request, "arguments")
                     THEN ValueIndex(request, "arguments")
                     ELSE JObject(<<>>)
    IN  [current_dir |-> dir,
         value |-> IF function_name = JString(<<"change_directory">>)
                   THEN invoke_change_directory(dir, arguments, resolves).value
                   ELSE IF function_name = JString(<<"get_current_directory">>)
                   THEN invoke_get_current_directory(dir)
                   ELSE invoke_list_directory(dir)]

\* AlpacaEnvironment::process_invocation: the value returned and current_dir
\* after it
process_invocation(dir, request, resolves) ==
    IF ~(ValueHas(request, "function") /\ IsStr(ValueIndex(request, "function")))
    THEN [current_dir |-> dir,
          value |-> JObject(<<[key |-> "error",
                               val |-> JString(<<"Missing required field 'function' in request.">>)]>>)]
    ELSE LET function_name == ValueIndex(request, "function").str
             arguments == IF ValueHas(request, "arguments")
                          THEN ValueIndex(request, "arguments")
                          ELSE JObject(<<>>)
         IN  IF function_name = <<"get_current_directory">>
             THEN [current_dir |-> dir, value |-> invoke_get_current_directory(dir)]
             ELSE IF function_name = <<"list_directory">>
             THEN [current_dir |-> dir, value |-> invoke_list_directory(dir)]
             ELSE IF function_name = <<"change_directory">>
             THEN LET r == invoke_change_directory(dir, arguments, resolves)
                  IN  [current_dir |-> r.current_dir, value |-> r.value]
             ELSE [current_dir |-> dir,
                   value |-> JObject(<<[key |-> "error",
                                        val |-> JString(<<"Unsupported function: '">>
                                                        \o function_name \o <<"'.">>)]>>)]

(***************************************************************************)
(* AlpacaFunctions                                                         *)
(***************************************************************************)
\* A function (Box<dyn AlpacaFunction>) is [name, impl]: impl names the type
\* that implements the trait. The functions are the host's: two
\* implementations under the name dir, one under read_file that wants
\* arguments, and one under the name list_functions.
HostFunctions == {[name |-> "dir", impl |-> "DirV1"],
                  [name |-> "dir", impl |-> "DirV2"],
                  [name |-> "read_file", impl |-> "NeedsArguments"],
                  [name |-> "list_functions", impl |-> "Lister"]}

\* AlpacaFunction::execute: Some(text), or None when the implementation
\* wants arguments and gets none
execute(f, arguments) ==
    IF f.impl = "NeedsArguments" /\ ~arguments.some
    THEN None
    ELSE Some(<<"result of", f.impl>>)

\* AlpacaFunction::info and AlpacaFunction::description
info(f) == <<"info of", f.impl>>
function_description(f) == <<"description of", f.impl>>

\* add_function that leaves a function of the same name as it is
add_function_keeping_first(fns, f) ==
    IF \E i \in 1..Len(fns) : fns[i].name = f.name
    THEN fns
    ELSE Append(fns, f)

\* AlpacaFunctions::add_function: HashMap::insert replaces the entry of the
\* same name, else adds one; the entries are kept in the order iter() yields
\* them
add_function(fns, f) ==
    IF \E i \in 1..Len(fns) : fns[i].name = f.name
    THEN [i \in 1..Len(fns) |-> IF fns[i].name = f.name THEN f ELSE fns[i]]
    ELSE Append(fns, f)

\* AlpacaFunctions::list_functions
list_functions(fns) ==
    <<Fence, Tag, NL>>
    \o to_string_pretty(
          JObject(<<[key |-> "function", val |-> JString(<<"list_functions">>)],
                    [key |-> "output", val |->
                        JArray([i \in 1..Len(fns) |->
                           JObject(<<[key |-> "description",
                                      val |-> JString(function_description(fns[i]))],
                                     [key |-> "function",
                                      val |-> JString(<<fns[i].name>>)]>>)])]>>))
    \o <<NL, Fence, NL>>

\* AlpacaFunctions::call_function
call_function(fns, function_name, arguments) ==
    IF \E i \in 1..Len(fns) : fns[i].name = function_name
    THEN LET f == fns[CHOOSE i \in 1..Len(fns) : fns[i].name = function_name]
         IN  IF execute(f, arguments).some
             THEN execute(f, arguments)
             ELSE Some(<<"Error: Incorrect usage of function '", f.name,
                         "'. See usage below info below:", NL>> \o info(f))
    ELSE Some((IF function_name # "list_functions"
               THEN <<"Function '", function_name, "' not found. Available functions are:", NL>>
               ELSE <<>>)
              \o list_functions(fns))

(***************************************************************************)
(* AlpacaToolCall setters                                                  *)
(***************************************************************************)
\* IndexMut<&str> of Value panics on a value that is neither null nor an
\* object
IndexPanics(v) == v.type \notin {"null", "object"}

\* v[k] = x for a v that is null, which becomes an object first, or an object
IndexAssign(v, k, x) ==
    JObject(MapInsert(IF v.type = "null" THEN <<>> ELSE v.fields, k, x))

\* what a setter does: it panics, or it returns with the object changed
Panicked(object) == [panic |-> TRUE, object |-> object]
Returned(object) == [panic |-> FALSE, object |-> object]

\* AlpacaToolCall::set_function
set_function(object, f) ==
    IF IndexPanics(object) THEN Panicked(object)
    ELSE Returned(IndexAssign(object, "function", JString(<<f>>)))

\* AlpacaToolCall::add_argument
add_argument(object, k, v) ==
    IF ~ValueHas(object, "arguments") /\ IndexPanics(object) THEN Panicked(object)
    ELSE LET with_args == IF ValueHas(object, "arguments") THEN object
                          ELSE IndexAssign(object, "arguments", JObject(<<>>))
             args == ValueIndex(with_args, "arguments")
         IN  IF IndexPanics(args) THEN Panicked(with_args)
             ELSE Returned(IndexAssign(with_args, "arguments", IndexAssign(args, k, v)))

(***************************************************************************)
(* Input texts                                                             *)
(***************************************************************************)
\* a fenced block around the tokens of obj
Block(obj) == <<Fence, Tag, NL>> \o obj \o <<NL, Fence>>

ObjList == <<"{", "action", ":", "list_actions", "}">>
ObjDescribe == <<"{", "action", ":", "describe_action", ",",
                 "action_name", ":", "list_actions", "}">>
ObjDescribeSwapped == <<"{", "action_name", ":", "list_actions", ",",
                        "action", ":", "describe_action", "}">>
ObjEcho == <<"{", "action", ":", "echo", "}">>
ObjNote == <<"{", "note", ":", "hi", "}">>
ObjNumber == <<"{", "action", ":", "5", "}">>
ObjBroken == <<"{", "action", ":">>
\* an object with an action whose note is a string that holds a fenced span
ObjWrapping == <<"{", "action", ":", "list_actions", ",", "note", ":", Quote,
                 Fence, Tag, Prose, Fence, Quote, "}">>

\* the pieces a text is put together from
Chunks == {Block(ObjList), Block(ObjDescribe), Block(ObjDescribeSwapped),
           Block(ObjEcho), <<Fence, Tag, NBSP>> \o ObjNote \o <<Fence>>,
           Block(ObjNumber), Block(ObjBroken),
           <<Fence, Tag>>, <<Prose>>, ObjList, ObjWrapping,
           Block(ObjEcho) \o <<Prose>> \o Block(ObjList)}

\* the largest number of pieces of a text
MaxChunks == 2

RECURSIVE TextsOf(_)
TextsOf(n) ==
    IF n = 0 THEN {<<>>}
    ELSE LET shorter == TextsOf(n - 1) IN
         shorter \cup {t \o c : t \in shorter, c \in Chunks}

Texts == TextsOf(MaxChunks)

\* requests to the built-in capabilities that read the file system and match
\* patterns, well formed and not
ObjReadDirectory == <<"{", "action", ":", "read_directory", "}">>
ObjReadDirectoryExtra == <<"{", "action", ":", "read_directory", ",", "note", ":", "hi", "}">>
ObjReadFile == <<"{", "action", ":", "read_file", ",", "file_name", ":", "hi", "}">>
ObjReadFileAbsent == <<"{", "action", ":", "read_file", ",", "file_name", ":", "alpha", "}">>
ObjReadFileMissing == <<"{", "action", ":", "read_file", "}">>
ObjRegex == <<"{", "action", ":", "regex", ",", "pattern", ":", "action", ",",
              "input", ":", "list_actions", "}">>
ObjRegexArray == <<"{", "action", ":", "regex", ",", "pattern", ":", "hi", ",",
                   "input", ":", "[", "hi", ",", "5", "]", "}">>
ObjRegexInvalid == <<"{", "action", ":", "regex", ",", "pattern", ":", "(", ",",
                     "input", ":", "hi", "}">>
ObjRegexNoPattern == <<"{", "action", ":", "regex", "}">>
ObjRegexNoInput == <<"{", "action", ":", "regex", ",", "pattern", ":", "hi", "}">>
ObjRegexNumber == <<"{", "action", ":", "regex", ",", "pattern", ":", "hi", ",",
                    "input", ":", "5", "}">>

BuiltinChunks == {Block(ObjReadDirectory), Block(ObjReadDirectoryExtra),
                  Block(ObjReadFile), Block(ObjReadFileAbsent), Block(ObjReadFileMissing),
                  Block(ObjRegex), Block(ObjRegexArray), Block(ObjRegexInvalid),
                  Block(ObjRegexNoPattern), Block(ObjRegexNoInput), Block(ObjRegexNumber),
                  Block(ObjEcho), Block(ObjBroken)}

RECURSIVE BuiltinTextsOf(_)
BuiltinTextsOf(n) ==
    IF n = 0 THEN {<<>>}
    ELSE LET shorter == BuiltinTextsOf(n - 1) IN
         shorter \cup {t \o c : t \in shorter, c \in BuiltinChunks}

BuiltinTexts == BuiltinTextsOf(MaxChunks)

\* the names asked of describe_action
AskedNames == {<<"list_actions">>, <<"describe_action">>, <<"echo">>, <<"alpha">>, <<"hi">>}

(***************************************************************************)
(* The state machine: a host that owns one registry and calls its methods *)
(***************************************************************************)
VARIABLES
    actions,    \* AlpacaActions.actions
    op,         \* the method called last, "idle" once its result is dropped
    added,      \* the capability passed to add_action
    replaced,   \* the capability that call found under the same name
    latest,     \* per name, the capability most recently passed to add_action
    message,    \* the text passed to invoke
    response,   \* what invoke returned
    invoked,    \* the calls of AlpacaActionTrait::invoke made by invoke, in order
    arg,        \* the name passed to describe_action
    ret,        \* what describe_action or action_names returned
    json_blocks,\* invoke, step by step: the blocks the iterator has not reached
    responses,  \* invoke, step by step: the responses collected so far
    seen,       \* the current directory each dispatched candidate was invoked in
    cwd0,       \* the current directory when invoke was called
    search_start,\* find_tool_calls: the cursor
    results,    \* find_tool_calls: the texts found so far
    matched,    \* the places of the start and end marker of each text found
    tool_calls, \* AlapacaToolDispatch.tool_calls
    object,     \* AlpacaToolCall.object
    origin,     \* the constructor that made the tool call
    object0,    \* the object the constructor gave the tool call
    key,        \* the name passed to set_function, add_argument or argument
    value,      \* the value passed to add_argument
    got,        \* what the method called last returned
    added_args, \* the calls of set_function and add_argument since the tool
                \* call was made
    current_dir,\* AlpacaEnvironment.current_dir
    calls,      \* the last calls of process_invocation, the latest last: of each
                \* its request, its result and current_dir before and after it
    functions,  \* AlpacaFunctions.functions
    call_args,  \* the arguments passed to call_function
    pc,         \* where main of example_action is: "loop" at the head of its
                \* loop, "invoke" once the model has answered, "done" after
                \* the loop, "panic" when an unwrap has failed
    iteration,  \* the iterations of the loop of main begun so far
    session,    \* the messages main has put in its session
    step_count, \* step_count of main
    turns       \* of each model turn of main, the text it gave invoke and
                \* what invoke returned

\* the variables of an invoke that is followed step by step
stepvars == <<json_blocks, responses, seen, cwd0>>

\* the variables of a tool dispatch
scanvars == <<search_start, results, matched, tool_calls>>

\* the variables of a tool call
callvars == <<object, origin, object0, key, value, got, added_args>>

\* the variables of an environment
envvars == <<current_dir, calls>>

\* the variables of a collection of functions
funvars == <<functions, call_args>>

\* the variables of main of example_action
loopvars == <<pc, iteration, session, step_count, turns>>

vars == <<actions, op, added, replaced, latest, message, response, invoked, arg, ret,
          cwd, json_blocks, responses, seen, cwd0,
          search_start, results, matched, tool_calls,
          object, origin, object0, key, value, got, added_args,
          current_dir, calls, functions, call_args,
          pc, iteration, session, step_count, turns>>

\* SYS_PROMPT_3 and QUERY_3 of example_action, each as one token
SysPrompt == "SYS_PROMPT_3"
Query == "QUERY_3"

\* the message session.system(content) puts in the session
SystemMessage(content) == [role |-> "system", content |-> content]

\* the message session.user(content) puts in the session
UserMessage(content) == [role |-> "user", content |-> content]

AllNames == {"list_actions", "describe_action", "read_directory", "read_file",
             "regex", "echo", "alpha", "hi", "cd"}

Init ==
    /\ actions = new
    /\ op = "idle"
    /\ added = NoAction
    /\ replaced = NoAction
    /\ latest = [n \in AllNames |->
                    IF \E i \in 1..Len(new) : new[i].name = n
                    THEN new[CHOOSE i \in 1..Len(new) : new[i].name = n]
                    ELSE NoAction]
    /\ message = <<>>
    /\ response = None
    /\ invoked = <<>>
    /\ arg = <<>>
    /\ ret = <<>>
    /\ cwd = "root"
    /\ json_blocks = <<>>
    /\ responses = <<>>
    /\ seen = <<>>
    /\ cwd0 = "root"
    /\ search_start = 1
    /\ results = <<>>
    /\ matched = <<>>
    /\ tool_calls = <<>>
    /\ object = JNull
    /\ origin = "none"
    /\ object0 = JNull
    /\ key = ""
    /\ value = JNull
    /\ got = None
    /\ added_args = {}
    /\ current_dir = StartDirectory
    /\ calls = <<>>
    /\ functions = <<>>
    /\ call_args = NoValue
    /\ pc = "loop"
    /\ iteration = 0
    /\ session = <<SystemMessage(<<SysPrompt>>), UserMessage(<<Query>>)>>
    /\ step_count = 0
    /\ turns = <<>>

\* actions.add_action(cap)
AddAction(cap) ==
    /\ op = "idle"
    /\ actions' = add_action(actions, cap)
    /\ op' = "add_action"
    /\ added' = cap
    /\ replaced' = latest[cap.name]
    /\ latest' = [latest EXCEPT ![cap.name] = cap]
    /\ UNCHANGED <<loopvars, funvars, envvars, message, response, invoked, arg, ret, cwd, stepvars, scanvars, callvars>>

\* actions.invoke(text)
Invoke(text) ==
    /\ op = "idle"
    /\ op' = "invoke"
    /\ message' = text
    /\ response' = invoke(actions, text)
    /\ invoked' = InvokedBy(actions, text)
    /\ UNCHANGED <<loopvars, funvars, envvars, actions, added, replaced, latest, arg, ret, cwd, stepvars, scanvars, callvars>>

\* actions.describe_action(name)
DescribeAction(name) ==
    /\ op = "idle"
    /\ op' = "describe_action"
    /\ arg' = name
    /\ ret' = describe_action(actions, name)
    /\ UNCHANGED <<loopvars, funvars, envvars, actions, added, replaced, latest, message, response, invoked, cwd, stepvars, scanvars, callvars>>

\* actions.action_names()
ActionNames ==
    /\ op = "idle"
    /\ op' = "action_names"
    /\ ret' = action_names(actions)
    /\ UNCHANGED <<loopvars, funvars, envvars, actions, added, replaced, latest, message, response, invoked, arg,
                   cwd, stepvars, scanvars, callvars>>

\* the caller is done with the returned value and goes on
Return ==
    /\ op \notin {"idle", "invoking", "scanning", "found", "panic"}
    /\ op' = "idle"
    /\ added' = NoAction
    /\ replaced' = NoAction
    /\ message' = <<>>
    /\ response' = None
    /\ invoked' = <<>>
    /\ arg' = <<>>
    /\ ret' = <<>>
    /\ json_blocks' = <<>>
    /\ responses' = <<>>
    /\ seen' = <<>>
    /\ cwd0' = cwd
    /\ search_start' = 1
    /\ results' = <<>>
    /\ matched' = <<>>
    /\ tool_calls' = <<>>
    /\ key' = ""
    /\ value' = JNull
    /\ got' = None
    /\ UNCHANGED <<loopvars, funvars, envvars, actions, latest, cwd, object, origin, object0, added_args>>

Next ==
    \/ \E cap \in HostActions : AddAction(cap)
    \/ \E text \in Texts : Invoke(text)
    \/ \E name \in AskedNames : DescribeAction(name)
    \/ ActionNames
    \/ Return

Spec == Init /\ [][Next]_vars

\* requests that change the current directory and requests that read it
ObjCdAlpha == <<"{", "action", ":", "cd", ",", "file_name", ":", "alpha", "}">>
ObjCdBack == <<"{", "action", ":", "cd", "}">>

StepChunks == {Block(ObjCdAlpha), Block(ObjCdBack), Block(ObjReadDirectory),
               Block(ObjReadFile), Block(ObjEcho),
               <<Fence, Tag, NBSP>> \o ObjNote \o <<Fence>>}

RECURSIVE StepTextsOf(_)
StepTextsOf(n) ==
    IF n = 0 THEN {<<>>}
    ELSE LET shorter == StepTextsOf(n - 1) IN
         shorter \cup {t \o c : t \in shorter, c \in StepChunks}

StepTexts == StepTextsOf(MaxChunks)

\* the capabilities the host registers when invoke is followed step by step
StepHostActions == {ChangeDir, [name |-> "echo", impl |-> "EchoV1"]}

\* actions.invoke(text) is called: parse has returned the blocks and the
\* iterator over them stands before the first
InvokeBegin(text) ==
    /\ op = "idle"
    /\ op' = "invoking"
    /\ message' = text
    /\ json_blocks' = parse(text)
    /\ responses' = <<>>
    /\ invoked' = <<>>
    /\ seen' = <<>>
    /\ cwd0' = cwd
    /\ UNCHANGED <<loopvars, funvars, envvars, actions, added, replaced, latest, response, arg, ret, cwd,
                   scanvars, callvars>>

\* a step of invoke that has the capability answer but loses what it did
\* to the current directory
StepDispatch_losing_effect ==
    /\ op = "invoking"
    /\ json_blocks # <<>>
    /\ LET block == Head(json_blocks) IN
       IF IsStr(ValueIndex(block, "action"))
       THEN LET d == DispatchOne(actions, block) IN
            /\ responses' = Append(responses, d.response)
            /\ invoked' = IF d.found
                          THEN Append(invoked, [action |-> d.action, object |-> block])
                          ELSE invoked
            /\ seen' = Append(seen, cwd)
       ELSE UNCHANGED <<responses, invoked, seen>>
    /\ json_blocks' = Tail(json_blocks)
    /\ UNCHANGED <<loopvars, funvars, envvars, actions, op, added, replaced, latest, message, response, arg, ret,
                   cwd, cwd0, scanvars, callvars>>

\* one step of the filter_map of invoke: the closure is called for the next
\* block and returns; for a block with a string action the capability, if
\* registered, has been invoked and has returned by then
StepDispatch ==
    /\ op = "invoking"
    /\ json_blocks # <<>>
    /\ LET block == Head(json_blocks) IN
       IF IsStr(ValueIndex(block, "action"))
       THEN LET d == DispatchOne(actions, block) IN
            /\ responses' = Append(responses, d.response)
            /\ invoked' = IF d.found
                          THEN Append(invoked, [action |-> d.action, object |-> block])
                          ELSE invoked
            /\ seen' = Append(seen, cwd)
            /\ cwd' = IF d.found THEN Effect(d.action, block, cwd) ELSE cwd
       ELSE UNCHANGED <<responses, invoked, seen, cwd>>
    /\ json_blocks' = Tail(json_blocks)
    /\ UNCHANGED <<loopvars, funvars, envvars, actions, op, added, replaced, latest, message, response, arg, ret, cwd0,
                   scanvars, callvars>>

\* the iterator is at its end: invoke joins the responses and returns
InvokeEnd ==
    /\ op = "invoking"
    /\ json_blocks = <<>>
    /\ op' = "invoke"
    /\ response' = IF responses = <<>> THEN None ELSE Some(join(responses, <<NL>>))
    /\ UNCHANGED <<loopvars, funvars, envvars, actions, added, replaced, latest, message, invoked, arg, ret,
                   cwd, stepvars, scanvars, callvars>>

\* the host calls invoke, which is followed block by block
NextSteps ==
    \/ \E cap \in StepHostActions : AddAction(cap)
    \/ \E text \in StepTexts : InvokeBegin(text)
    \/ StepDispatch
    \/ InvokeEnd
    \/ Return

SpecSteps == Init /\ [][NextSteps]_vars

\* a fenced tool call around the tokens of obj
ToolBlock(obj) == <<Fence, ToolTag, NL>> \o obj \o <<NL, Fence>>

ObjToolDir == <<"{", "function", ":", "dir", ",", "arguments", ":", "{", "}", "}">>
ObjToolRead == <<"{", "function", ":", "read_file", ",", "arguments", ":",
                 "{", "file_name", ":", "hi", "}", "}">>

ToolChunks == {ToolBlock(ObjToolDir), ToolBlock(ObjToolRead), ToolBlock(ObjBroken),
               <<Fence, ToolTag>>, <<Prose>>, Block(ObjList)}

RECURSIVE ToolTextsOf(_)
ToolTextsOf(n) ==
    IF n = 0 THEN {<<>>}
    ELSE LET shorter == ToolTextsOf(n - 1) IN
         shorter \cup {t \o c : t \in shorter, c \in ToolChunks}

ToolTexts == ToolTextsOf(MaxChunks)

\* AlapacaToolDispatch::new(text) is called: find_tool_calls stands before
\* its loop
NewDispatch(text) ==
    /\ op = "idle"
    /\ op' = "scanning"
    /\ message' = text
    /\ search_start' = 1
    /\ results' = <<>>
    /\ matched' = <<>>
    /\ tool_calls' = <<>>
    /\ UNCHANGED <<loopvars, funvars, envvars, actions, added, replaced, latest, response, invoked, arg, ret,
                   cwd, stepvars, callvars>>

\* a pass of the loop that leaves the cursor on the end marker it found
ScanStep_onto_end_marker ==
    /\ op = "scanning"
    /\ LET abs_start == FindStart(message, search_start)
           content_start == abs_start + 2
           end == FindEnd(message, content_start)
       IN  /\ abs_start # 0
           /\ end # 0
           /\ results' = Append(results, TrimWs(SubSeq(message, content_start, end - 1)))
           /\ matched' = Append(matched, [from |-> abs_start, to |-> end])
           /\ search_start' = end
    /\ UNCHANGED <<loopvars, funvars, envvars, actions, op, added, replaced, latest, message, response, invoked,
                   arg, ret, cwd, stepvars, tool_calls, callvars>>

\* one pass of the loop of find_tool_calls in which a start marker and an
\* end marker after it are found
ScanStep ==
    /\ op = "scanning"
    /\ LET abs_start == FindStart(message, search_start)
           content_start == abs_start + 2
           end == FindEnd(message, content_start)
       IN  /\ abs_start # 0
           /\ end # 0
           /\ results' = Append(results, TrimWs(SubSeq(message, content_start, end - 1)))
           /\ matched' = Append(matched, [from |-> abs_start, to |-> end])
           /\ search_start' = end + 1
    /\ UNCHANGED <<loopvars, funvars, envvars, actions, op, added, replaced, latest, message, response, invoked,
                   arg, ret, cwd, stepvars, tool_calls, callvars>>

\* the loop ends, for want of a start marker or of an end marker after it,
\* and find_tool_calls returns the texts found
ScanEnd ==
    /\ op = "scanning"
    /\ LET abs_start == FindStart(message, search_start)
       IN  abs_start = 0 \/ FindEnd(message, abs_start + 2) = 0
    /\ op' = "found"
    /\ UNCHANGED <<loopvars, funvars, envvars, actions, added, replaced, latest, message, response, invoked,
                   arg, ret, cwd, stepvars, scanvars, callvars>>

\* create_tool_calls parses the texts found and new returns the dispatch
CreateToolCalls ==
    /\ op = "found"
    /\ op' = "tool_dispatch"
    /\ tool_calls' = ParseToolCalls(results)
    /\ UNCHANGED <<loopvars, funvars, envvars, actions, added, replaced, latest, message, response, invoked,
                   arg, ret, cwd, stepvars, search_start, results, matched, callvars>>

\* the host builds tool dispatches from texts
NextToolDispatch ==
    \/ \E text \in ToolTexts : NewDispatch(text)
    \/ ScanStep
    \/ ScanEnd
    \/ CreateToolCalls
    \/ Return

SpecToolDispatch == Init /\ [][NextToolDispatch]_vars

\* the passes of the loop are taken as long as there is one to take
SpecToolDispatchFair ==
    Init /\ [][NextToolDispatch]_vars /\ WF_vars(ScanStep) /\ WF_vars(ScanEnd)

\* the texts a tool call is parsed from, among them JSON that is no object
\* and an object whose arguments are no object
ObjToolNumber == <<"5">>
ObjToolArgsNumber == <<"{", "arguments", ":", "5", "}">>
ToolCallTexts == {ObjToolDir, ObjToolRead, ObjToolNumber, ObjToolArgsNumber, ObjBroken}

\* the function names, argument names and argument values the host passes
FunctionNames == {"dir", "read_file"}
ArgNames == {"file_name", "pattern"}
ArgValues == {JString(<<"hi">>), JNumber(<<"5">>), JString(<<Prose, NL, Quote>>)}

\* AlpacaToolCall::new()
ToolCallNew ==
    /\ op = "idle"
    /\ origin = "none"
    /\ op' = "tool_call_new"
    /\ origin' = "new"
    /\ object' = JNull
    /\ object0' = JNull
    /\ UNCHANGED <<loopvars, funvars, envvars, actions, added, replaced, latest, message, response, invoked,
                   arg, ret, cwd, stepvars, scanvars, key, value, got, added_args>>

\* AlpacaToolCall::from_str(text): Ok(tool call) for any JSON, else Err(())
ToolCallFromStr(text) ==
    /\ op = "idle"
    /\ origin = "none"
    /\ message' = text
    /\ IF from_str(text).ok
       THEN /\ op' = "tool_call_from_str"
            /\ origin' = "from_str"
            /\ object' = from_str(text).val
            /\ object0' = from_str(text).val
       ELSE /\ op' = "tool_call_err"
            /\ UNCHANGED <<origin, object, object0>>
    /\ UNCHANGED <<loopvars, funvars, envvars, actions, added, replaced, latest, response, invoked,
                   arg, ret, cwd, stepvars, scanvars, key, value, got, added_args>>

\* tool_call.set_function(f): the tool call itself is returned, unless the
\* index panics
SetFunction(f) ==
    /\ op = "idle"
    /\ origin # "none"
    /\ key' = f
    /\ value' = JString(<<f>>)
    /\ LET r == set_function(object, f) IN
       /\ object' = r.object
       /\ IF r.panic
          THEN /\ op' = "panic"
               /\ UNCHANGED <<got, added_args>>
          ELSE /\ op' = "set_function"
               /\ got' = SomeValue(r.object)
               /\ added_args' = added_args \cup
                      {[setter |-> "set_function", key |-> "function", value |-> JString(<<f>>)]}
    /\ UNCHANGED <<loopvars, funvars, envvars, actions, added, replaced, latest, message, response, invoked,
                   arg, ret, cwd, stepvars, scanvars, origin, object0>>

\* tool_call.add_argument(k, v): the tool call itself is returned, unless an
\* index panics
AddArgument(k, v) ==
    /\ op = "idle"
    /\ origin # "none"
    /\ key' = k
    /\ value' = v
    /\ LET r == add_argument(object, k, v) IN
       /\ object' = r.object
       /\ IF r.panic
          THEN /\ op' = "panic"
               /\ UNCHANGED <<got, added_args>>
          ELSE /\ op' = "add_argument"
               /\ got' = SomeValue(r.object)
               /\ added_args' = added_args \cup
                      {[setter |-> "add_argument", key |-> k, value |-> v]}
    /\ UNCHANGED <<loopvars, funvars, envvars, actions, added, replaced, latest, message, response, invoked,
                   arg, ret, cwd, stepvars, scanvars, origin, object0>>

\* tool_call.function()
Function ==
    /\ op = "idle"
    /\ origin # "none"
    /\ op' = "function"
    /\ got' = function(object)
    /\ UNCHANGED <<loopvars, funvars, envvars, actions, added, replaced, latest, message, response, invoked,
                   arg, ret, cwd, stepvars, scanvars, object, origin, object0,
                   key, value, added_args>>

\* tool_call.argument(k)
Argument(k) ==
    /\ op = "idle"
    /\ origin # "none"
    /\ op' = "argument"
    /\ key' = k
    /\ got' = argument(object, k)
    /\ UNCHANGED <<loopvars, funvars, envvars, actions, added, replaced, latest, message, response, invoked,
                   arg, ret, cwd, stepvars, scanvars, object, origin, object0,
                   value, added_args>>

\* tool_call.to_string_pretty()
ToStringPretty ==
    /\ op = "idle"
    /\ origin # "none"
    /\ op' = "to_string_pretty"
    /\ ret' = to_string_pretty(object)
    /\ UNCHANGED <<loopvars, funvars, envvars, actions, added, replaced, latest, message, response, invoked,
                   arg, cwd, stepvars, scanvars, callvars>>

\* the host makes one tool call, by new or from a text, and calls its methods
NextToolCall ==
    \/ ToolCallNew
    \/ \E text \in ToolCallTexts : ToolCallFromStr(text)
    \/ \E f \in FunctionNames : SetFunction(f)
    \/ \E k \in ArgNames, v \in ArgValues : AddArgument(k, v)
    \/ Function
    \/ \E k \in ArgNames : Argument(k)
    \/ ToStringPretty
    \/ Return

SpecToolCall == Init /\ [][NextToolCall]_vars

\* requests to an environment: {"function": f} and
\* {"arguments": arguments, "function": f}
RequestBare(f) == JObject(<<[key |-> "function", val |-> JString(<<f>>)]>>)
Request(f, arguments) ==
    JObject(<<[key |-> "arguments", val |-> arguments],
              [key |-> "function", val |-> JString(<<f>>)]>>)
SubdirArgs(v) == JObject(<<[key |-> "subdir_name", val |-> v]>>)

\* the names asked for: a subdirectory, a symbolic link to a directory, a
\* file, a name of nothing, the parent and two names found in the root
SubdirNames == {"sub", "link", "hi", "nope", "..", "home", "mnt"}

\* requests without a function name that is a string
RequestsWithoutFunction ==
    {JObject(<<[key |-> "arguments", val |-> SubdirArgs(JString(<<"sub">>))]>>),
     JObject(<<[key |-> "function", val |-> JNumber(<<"5">>)]>>),
     JNumber(<<"5">>)}

EnvRequests ==
    {RequestBare(f) : f \in {"get_current_directory", "list_directory",
                             "change_directory", "echo"}}
    \cup {Request("change_directory", SubdirArgs(JString(<<n>>))) : n \in SubdirNames}
    \cup {Request("change_directory", JObject(<<>>)),
          Request("change_directory", SubdirArgs(JNumber(<<"5">>))),
          Request("get_current_directory", JObject(<<>>)),
          Request("echo", SubdirArgs(JString(<<"sub">>)))}
    \cup RequestsWithoutFunction

\* environment.process_invocation(request)
ProcessInvocation(request, resolves) ==
    /\ op \in {"idle", "process_invocation"}
    /\ op' = "process_invocation"
    /\ LET r == process_invocation(current_dir, request, resolves)
           call == [request |-> request, result |-> r.value,
                    before |-> current_dir, after |-> r.current_dir]
       IN  /\ current_dir' = r.current_dir
           /\ calls' = IF calls = <<>> THEN <<call>> ELSE <<calls[Len(calls)], call>>
    /\ UNCHANGED <<loopvars, funvars, actions, added, replaced, latest, message, response, invoked,
                   arg, ret, cwd, stepvars, scanvars, callvars>>

\* the host sends one request after another to one environment
NextEnvironment ==
    \E request \in EnvRequests, resolves \in BOOLEAN : ProcessInvocation(request, resolves)

SpecEnvironment == Init /\ [][NextEnvironment]_vars

\* the names the host calls functions by
FunctionNamesCalled == {"dir", "read_file", "list_functions", "nope"}

\* the arguments the host passes to call_function: none, or an object
FunctionArguments == {NoValue, SomeValue(JObject(<<>>))}

\* functions.add_function(function)
AddFunction(f) ==
    /\ op = "idle"
    /\ op' = "add_function"
    /\ added' = f
    /\ replaced' = IF \E i \in 1..Len(functions) : functions[i].name = f.name
                   THEN functions[CHOOSE i \in 1..Len(functions) :
                                     functions[i].name = f.name]
                   ELSE NoAction
    /\ functions' = add_function(functions, f)
    /\ UNCHANGED <<loopvars, envvars, actions, latest, message, response, invoked,
                   arg, ret, cwd, stepvars, scanvars, callvars, call_args>>

\* functions.call_function(function_name, arguments)
CallFunction(function_name, arguments) ==
    /\ op = "idle"
    /\ op' = "call_function"
    /\ arg' = <<function_name>>
    /\ call_args' = arguments
    /\ response' = call_function(functions, function_name, arguments)
    /\ UNCHANGED <<loopvars, envvars, actions, added, replaced, latest, message, invoked,
                   ret, cwd, stepvars, scanvars, callvars, functions>>

\* the host registers functions and calls functions by name
NextFunctions ==
    \/ \E f \in HostFunctions : AddFunction(f)
    \/ \E function_name \in FunctionNamesCalled, arguments \in FunctionArguments :
          CallFunction(function_name, arguments)
    \/ Return

SpecFunctions == Init /\ [][NextFunctions]_vars

\* texts with markers in the place of others: a start marker of either kind
\* with nothing after it, a fence alone, and a block of either kind
ScanChunks == {<<Fence, Tag>>, <<Fence, ToolTag>>, <<Fence>>, <<Prose>>,
               Block(ObjEcho), ToolBlock(ObjToolDir)}

RECURSIVE ScanTextsOf(_)
ScanTextsOf(n) ==
    IF n = 0 THEN {<<>>}
    ELSE LET shorter == ScanTextsOf(n - 1) IN
         shorter \cup {t \o c : t \in shorter, c \in ScanChunks}

ScanTexts == ScanTextsOf(MaxChunks)

\* the host hands the same texts to invoke and to a tool dispatch
NextScans ==
    \/ \E text \in ScanTexts : Invoke(text)
    \/ \E text \in ScanTexts : NewDispatch(text)
    \/ ScanStep
    \/ ScanEnd
    \/ CreateToolCalls
    \/ Return

SpecScans == Init /\ [][NextScans]_vars

\* candidates whose action is null, an object, an array and a boolean
ObjActionNull == <<"{", "action", ":", "null", "}">>
ObjActionObject == <<"{", "action", ":", "{", "}", "}">>
ObjActionArray == <<"{", "action", ":", "[", "list_actions", "]", "}">>
ObjActionTrue == <<"{", "action", ":", "true", "}">>

CandidateChunks == {Block(ObjNumber), Block(ObjActionNull), Block(ObjActionObject),
                    Block(ObjActionArray), Block(ObjActionTrue),
                    Block(ObjList), Block(ObjEcho), Block(ObjNote)}

RECURSIVE CandidateTextsOf(_)
CandidateTextsOf(n) ==
    IF n = 0 THEN {<<>>}
    ELSE LET shorter == CandidateTextsOf(n - 1) IN
         shorter \cup {t \o c : t \in shorter, c \in CandidateChunks}

CandidateTexts == CandidateTextsOf(MaxChunks)

\* the host calls invoke with candidates of every kind of action field
NextCandidates ==
    \/ \E cap \in HostActions : AddAction(cap)
    \/ \E text \in CandidateTexts : Invoke(text)
    \/ Return

SpecCandidates == Init /\ [][NextCandidates]_vars

(***************************************************************************)
(* main of example_action: the agent loop                                  *)
(***************************************************************************)
\* the end of the range 0..11 the loop of main runs over
MaxTurns == 11

\* the texts the model's turn leaves for invoke once the think tag is
\* removed: two that invoke answers and two it finds no action in
LoopTexts == {Block(ObjList), Block(ObjEcho), <<Prose>>, Block(ObjNote)}

\* session.update(..).await.unwrap(), response.text().unwrap() and the
\* removal of the think tag: the model's turn, which leaves text
Update(text) ==
    /\ pc = "loop"
    /\ iteration < MaxTurns
    /\ iteration' = iteration + 1
    /\ message' = text
    /\ pc' = "invoke"
    /\ UNCHANGED <<funvars, envvars, actions, op, added, replaced, latest, response, invoked,
                   arg, ret, cwd, stepvars, scanvars, callvars, session, step_count, turns>>

\* session.update(..).await.unwrap() or response.text().unwrap() on a turn
\* that failed: main panics
UpdateFails ==
    /\ pc = "loop"
    /\ iteration < MaxTurns
    /\ iteration' = iteration + 1
    /\ pc' = "panic"
    /\ UNCHANGED <<funvars, envvars, actions, op, added, replaced, latest, message, response,
                   invoked, arg, ret, cwd, stepvars, scanvars, callvars, session, step_count,
                   turns>>

\* a variant of InvokeText that goes on to the next turn when invoke returns
\* None
InvokeText_without_break ==
    /\ pc = "invoke"
    /\ response' = invoke(actions, message)
    /\ turns' = Append(turns, [text |-> message, response |-> response'])
    /\ session' = IF response'.some
                  THEN Append(session, UserMessage(response'.text))
                  ELSE session
    /\ step_count' = step_count + 1
    /\ pc' = "loop"
    /\ UNCHANGED <<funvars, envvars, actions, op, added, replaced, latest, message, invoked,
                   arg, ret, cwd, stepvars, scanvars, callvars, iteration>>

\* the rest of the loop's body: actions.invoke(text).map(..), whose closure
\* runs session.user(&response) when invoke returns Some, then the break
\* when action_count is 0 and step_count += 1 otherwise
InvokeText ==
    /\ pc = "invoke"
    /\ response' = invoke(actions, message)
    /\ turns' = Append(turns, [text |-> message, response |-> response'])
    /\ IF response'.some
       THEN /\ session' = Append(session, UserMessage(response'.text))
            /\ step_count' = step_count + 1
            /\ pc' = "loop"
       ELSE /\ pc' = "done"
            /\ UNCHANGED <<session, step_count>>
    /\ UNCHANGED <<funvars, envvars, actions, op, added, replaced, latest, message, invoked,
                   arg, ret, cwd, stepvars, scanvars, callvars, iteration>>

\* the range 0..11 is used up: main leaves the loop and prints step_count
LoopEnd ==
    /\ pc = "loop"
    /\ iteration = MaxTurns
    /\ pc' = "done"
    /\ UNCHANGED <<funvars, envvars, actions, op, added, replaced, latest, message, response,
                   invoked, arg, ret, cwd, stepvars, scanvars, callvars, iteration, session,
                   step_count, turns>>

\* the model's turn ends: with a text or with a failure
ModelTurn ==
    \/ \E text \in LoopTexts : Update(text)
    \/ UpdateFails

NextLoop ==
    \/ ModelTurn
    \/ InvokeText
    \/ LoopEnd

SpecLoop == Init /\ [][NextLoop]_vars

\* main is one task and nothing else runs: each await of update ends, with a
\* response or with an error, and the code after it runs to the next await
\* or to the end of main.  InvokeText is enabled exactly when pc is "invoke",
\* and its weak fairness is written with that.
SpecLoopFair ==
    /\ Init /\ [][NextLoop]_vars
    /\ WF_vars(ModelTurn)
    /\ WF_vars(LoopEnd)
    /\ (<>[](pc = "invoke")) => []<><<InvokeText>>_vars

\* the host calls invoke with requests to the built-in capabilities
NextBuiltins ==
    \/ \E cap \in HostActions : AddAction(cap)
    \/ \E text \in BuiltinTexts : Invoke(text)
    \/ Return

SpecBuiltins == Init /\ [][NextBuiltins]_vars

(***************************************************************************)
(* What the claims speak of                                                *)
(***************************************************************************)
\* the fenced spans of a text
FencedSpans(t) == captures_iter(t, 1)

\* a span whose inner text parses
SpanParses(span) == from_str(ReplaceNbsp(span)).ok

\* a candidate with an action discriminator
HasAction(v) == IsStr(ValueIndex(v, "action"))

\* the elements of vs from the i-th on that no earlier element equals
RECURSIVE Firsts(_, _)
Firsts(vs, i) ==
    IF i > Len(vs) THEN <<>>
    ELSE (IF \E j \in 1..(i - 1) : vs[j] = vs[i] THEN <<>> ELSE <<vs[i]>>)
         \o Firsts(vs, i + 1)

\* the elements of vs from the i-th on that have an action discriminator
RECURSIVE WithAction(_, _)
WithAction(vs, i) ==
    IF i > Len(vs) THEN <<>>
    ELSE (IF HasAction(vs[i]) THEN <<vs[i]>> ELSE <<>>) \o WithAction(vs, i + 1)

\* the distinct invocations of a text, each at its first place
Requests(t) == WithAction(Firsts(ParseResults(t), 1), 1)

\* the invocations in the fenced spans of a text, repeated ones included
RECURSIVE FencedInvocations(_, _)
FencedInvocations(spans, i) ==
    IF i > Len(spans) THEN <<>>
    ELSE (IF SpanParses(spans[i]) /\ HasAction(from_str(ReplaceNbsp(spans[i])).val)
          THEN <<from_str(ReplaceNbsp(spans[i])).val>> ELSE <<>>)
         \o FencedInvocations(spans, i + 1)

ActionName(v) == ValueIndex(v, "action").str

\* the numbers of a finite set in ascending order
RECURSIVE Ascending(_)
Ascending(S) ==
    IF S = {} THEN <<>>
    ELSE LET m == CHOOSE x \in S : \A y \in S : x <= y
         IN  <<m>> \o Ascending(S \ {m})

\* the positions at which a header line of a response starts
HeaderPositions(text) ==
    {p \in 1..(Len(text) - 4) :
        /\ text[p] = "# " /\ text[p + 1] = Backtick
        /\ text[p + 3] = Backtick /\ text[p + 4] = " Action Response"}

\* the names in the header lines of a response text, in order
HeaderNames(text) ==
    LET ps == Ascending(HeaderPositions(text))
    IN  [k \in 1..Len(ps) |-> text[ps[k] + 2]]

\* sub occurs in text as a contiguous piece starting at or after position p
OccursFrom(text, sub, p) ==
    \E q \in p..(Len(text) - Len(sub) + 1) : SubSeq(text, q, q + Len(sub) - 1) = sub

\* the registered invocations among rs from the i-th on, as calls
RECURSIVE CallsOf(_, _, _)
CallsOf(acts, rs, i) ==
    IF i > Len(rs) THEN <<>>
    ELSE (IF Registered(acts, ActionName(rs[i]))
          THEN <<[action |-> Lookup(acts, ActionName(rs[i])), object |-> rs[i]]>>
          ELSE <<>>)
         \o CallsOf(acts, rs, i + 1)

(***************************************************************************)
(* C1                                                                      *)
(***************************************************************************)
\* the three kinds of text C1 names: no fenced block and not parseable as a
\* whole; fenced blocks that all fail to parse; parsed blocks that all lack
\* the action
C1_TextWithoutInvocation(t) ==
    \/ FencedSpans(t) = <<>> /\ ~from_str(t).ok
    \/ /\ FencedSpans(t) # <<>>
       /\ \A i \in 1..Len(FencedSpans(t)) : ~SpanParses(FencedSpans(t)[i])
    \/ /\ ParseResults(t) # <<>>
       /\ \A i \in 1..Len(ParseResults(t)) : ~HasAction(ParseResults(t)[i])

\* C1: invoke returns None for the texts of these three kinds and Some in
\* every other case.
C1_NoneExactlyWithoutInvocation ==
    op = "invoke" => (response = None <=> C1_TextWithoutInvocation(message))

(***************************************************************************)
(* C2                                                                      *)
(***************************************************************************)
\* C2: for a text with exactly one well-formed invocation block, naming a
\* registered capability, invoke returns one response that starts with the
\* header naming the capability, and the capability is invoked once, with
\* the whole candidate object.
C2_OneInvocationOneResponse ==
    LET found == FencedInvocations(FencedSpans(message), 1) IN
    (op = "invoke" /\ Len(found) = 1 /\ Registered(actions, ActionName(found[1])))
    => /\ response.some
       /\ HeaderNames(response.text) = ActionName(found[1])
       /\ Len(response.text) >= 8
       /\ SubSeq(response.text, 1, 8)
            = <<NL, "# ", Backtick>> \o ActionName(found[1])
              \o <<Backtick, " Action Response", NL, NL>>
       /\ invoked = <<[action |-> Lookup(actions, ActionName(found[1])),
                       object |-> found[1]]>>

\* C2 witness: invoke has answered a text whose one invocation block names
\* describe_action and carries a second field
C2_Witness ==
    /\ op = "invoke"
    /\ Len(FencedInvocations(FencedSpans(message), 1)) = 1
    /\ Len(invoked) = 1
    /\ invoked[1].action = ActionDescribe
    /\ ValueHas(invoked[1].object, "action_name")

(***************************************************************************)
(* C3                                                                      *)
(***************************************************************************)
\* C3: a candidate equal to an earlier one of the same scan (same fields and
\* values, in any order in the text) is not dispatched again: every
\* registered invocation is invoked once, the invocations are made in the
\* order of the first occurrences, and there is one response for each of the
\* distinct invocations.
C3_DuplicatesInvokedOnce ==
    LET raw == ParseResults(message) IN
    op = "invoke"
    => /\ \A i \in 1..Len(raw) :
             (HasAction(raw[i]) /\ Registered(actions, ActionName(raw[i])))
             => Cardinality({k \in 1..Len(invoked) : invoked[k].object = raw[i]}) = 1
       /\ \A k, l \in 1..Len(invoked) :
             k < l => \E i \in 1..Len(raw) :
                         /\ raw[i] = invoked[k].object
                         /\ \A j \in 1..i : raw[j] # invoked[l].object
       /\ Len(HeaderNames(response.text))
            = Cardinality({raw[i] : i \in {j \in 1..Len(raw) : HasAction(raw[j])}})

\* C3 witness: invoke has answered a text with the same describe_action
\* request twice, its fields in the other order the second time
C3_Witness ==
    /\ op = "invoke"
    /\ message = Block(ObjDescribe) \o Block(ObjDescribeSwapped)
    /\ Len(invoked) = 1

(***************************************************************************)
(* C4                                                                      *)
(***************************************************************************)
\* C4: for a text with several distinct invocation blocks the responses
\* stand in the returned text in the order of the blocks, and the
\* capabilities are invoked in that order; list_actions followed by
\* describe_action gives two responses, the second headed describe_action.
C4_DispatchInTextOrder ==
    LET rs == Requests(message) IN
    (op = "invoke" /\ Len(rs) >= 2)
    => /\ HeaderNames(response.text) = [k \in 1..Len(rs) |-> ActionName(rs[k])[1]]
       /\ invoked = CallsOf(actions, rs, 1)
       /\ message = Block(ObjList) \o Block(ObjDescribe)
            => /\ HeaderNames(response.text) = <<"list_actions", "describe_action">>
               /\ invoked[1].action = ActionList /\ invoked[2].action = ActionDescribe
       /\ message = Block(ObjDescribe) \o Block(ObjList)
            => /\ HeaderNames(response.text) = <<"describe_action", "list_actions">>
               /\ invoked[1].action = ActionDescribe /\ invoked[2].action = ActionList

\* C4 witness: invoke has answered list_actions followed by describe_action
C4_Witness ==
    /\ op = "invoke"
    /\ message = Block(ObjList) \o Block(ObjDescribe)
    /\ Len(invoked) = 2

(***************************************************************************)
(* C5                                                                      *)
(***************************************************************************)
\* the invocations among rs that name no registered capability
Unregistered(acts, rs) ==
    {k \in 1..Len(rs) : ~Registered(acts, ActionName(rs[k]))}

\* C5: for every candidate whose action names no registered
\* capability the response holds, under the header with the requested name,
\* the text Action '<name>' not found. followed by the block that shows how
\* to invoke list_actions.
C5_NotFoundShowsHowToList ==
    LET rs == Requests(message) IN
    op = "invoke"
    => \A k \in Unregistered(actions, rs) :
          \E q \in 1..(Len(response.text) - 7) :
             /\ SubSeq(response.text, q, q + 7)
                  = <<"# ", Backtick>> \o ActionName(rs[k])
                    \o <<Backtick, " Action Response", NL, NL, "## Error">>
             /\ \E e \in q..(Len(response.text) - 2) :
                   /\ SubSeq(response.text, e, e + 2)
                        = <<"Action '">> \o ActionName(rs[k]) \o <<"' not found.">>
                   /\ OccursFrom(response.text, ACTION_NOT_FOUND, e + 3)

(***************************************************************************)
(* C6                                                                      *)
(***************************************************************************)
\* C6: when a candidate names no registered capability, every candidate
\* before and after it that names a registered one is still invoked, in
\* extraction order, and the responses of all candidates, found or not,
\* stand in the returned text in that order.
C6_UnknownActionDoesNotAbort ==
    LET rs == Requests(message) IN
    (op = "invoke" /\ Unregistered(actions, rs) # {})
    => /\ response.some
       /\ invoked = CallsOf(actions, rs, 1)
       /\ HeaderNames(response.text) = [k \in 1..Len(rs) |-> ActionName(rs[k])[1]]
       /\ \A k \in 1..Len(rs) :
             Registered(actions, ActionName(rs[k]))
             => OccursFrom(response.text,
                           TraitInvoke(Lookup(actions, ActionName(rs[k])), rs[k], actions), 1)

\* C6 witness: invoke has answered a text whose second of three invocations
\* names no registered capability
C6_Witness ==
    /\ op = "invoke"
    /\ Len(Requests(message)) = 3
    /\ Unregistered(actions, Requests(message)) = {2}
    /\ Len(invoked) = 2

(***************************************************************************)
(* C7                                                                      *)
(***************************************************************************)
\* the texts of rs from the k-th on, one line feed between two of them
RECURSIVE SeparatedByNL(_, _)
SeparatedByNL(rs, k) ==
    IF k > Len(rs) THEN <<>>
    ELSE IF k = Len(rs) THEN rs[k]
    ELSE rs[k] \o <<NL>> \o SeparatedByNL(rs, k + 1)

\* C7: with two or more responses the returned text is the responses in
\* extraction order, one blank line between two of them: every response
\* ends its last line, and one line feed follows before the next response.
C7_ResponsesSeparatedByBlankLine ==
    LET rs == Requests(message)
        texts == [k \in 1..Len(rs) |-> DispatchOne(actions, rs[k]).response]
    IN  (op = "invoke" /\ Len(rs) >= 2)
        => /\ response = Some(SeparatedByNL(texts, 1))
           /\ \A k \in 1..Len(rs) : texts[k][Len(texts[k])] = NL

\* C7 witness: invoke has returned three responses
C7_Witness ==
    /\ op = "invoke"
    /\ Len(Requests(message)) = 3
    /\ Len(HeaderNames(response.text)) = 3

(***************************************************************************)
(* C8                                                                      *)
(***************************************************************************)
\* the shape of an error text: the fenced {"error": ...} envelope, the
\* "## Error" section, or something else
ErrorShape(text) ==
    IF Len(text) >= 6 /\ SubSeq(text, 1, 6) = <<Fence, Tag, NL, "{", NL, "  ">>
       /\ text[7] = "error"
    THEN "error envelope"
    ELSE IF Len(text) >= 1 /\ text[1] = "## Error" THEN "error section"
    ELSE "other"

\* what invoke puts under the header for a name that is not registered
DispatchNotFoundBody(acts, name) ==
    LET r == DispatchOne(acts, JObject(<<[key |-> "action", val |-> JString(name)]>>)).response
    IN  SubSeq(r, 9, Len(r) - 1)

\* C8: describe_action returns the non-empty description of a
\* registered name, and for a name that is not registered an error of the
\* shape of the not-found error of invoke for that name.
C8_DescribeNotFoundLikeDispatch ==
    op = "describe_action"
    => IF Registered(actions, arg)
       THEN ret = description(Lookup(actions, arg)) /\ ret # <<>>
       ELSE ErrorShape(ret) = ErrorShape(DispatchNotFoundBody(actions, arg))

(***************************************************************************)
(* C9                                                                      *)
(***************************************************************************)
\* the names registered so far
RegisteredNames == {n \in AllNames : latest[n] # NoAction}

\* C9: action_names returns every registered name once, in ascending
\* order, whatever the order of the add_action calls was: the result is
\* fixed by the set of names alone.
C9_NamesSorted ==
    op = "action_names"
    => /\ \A k \in 1..(Len(ret) - 1) : StrLess(ret[k], ret[k + 1])
       /\ {ret[k] : k \in 1..Len(ret)} = RegisteredNames
       /\ Len(ret) = Cardinality(RegisteredNames)
       /\ ret = SelectSeq(StringOrder, LAMBDA n : n \in RegisteredNames)

\* C9 witness: action_names has answered for a registry to which echo was
\* added before alpha
C9_Witness ==
    /\ op = "action_names"
    /\ \E i, j \in 1..Len(actions) :
          i < j /\ actions[i].name = "echo" /\ actions[j].name = "alpha"
    /\ Len(ret) = 7

(***************************************************************************)
(* C10                                                                     *)
(***************************************************************************)
\* C10: the names of the registry are unique and each name holds the
\* capability registered last under it: a repeated add_action does not let
\* the registry grow, action_names lists the name once, and invoke and
\* describe_action reach the capability registered last.
C10_LastRegistrationWins ==
    /\ \A i, j \in 1..Len(actions) : actions[i].name = actions[j].name => i = j
    /\ Len(actions) = Cardinality(RegisteredNames)
    /\ \A n \in RegisteredNames :
          Registered(actions, <<n>>) /\ Lookup(actions, <<n>>) = latest[n]
    /\ op = "add_action" => Lookup(actions, <<added.name>>) = added
    /\ op = "action_names"
          => \A n \in RegisteredNames : Cardinality({k \in 1..Len(ret) : ret[k] = n}) = 1
    /\ op = "invoke"
          => \A k \in 1..Len(invoked) : invoked[k].action = latest[invoked[k].action.name]
    /\ (op = "describe_action" /\ arg[1] \in RegisteredNames)
          => ret = description(latest[arg[1]])

\* C10 witness: add_action has put the second echo capability in the place
\* of the first
C10_Witness ==
    /\ op = "add_action"
    /\ replaced = [name |-> "echo", impl |-> "EchoV1"]
    /\ added = [name |-> "echo", impl |-> "EchoV2"]


(***************************************************************************)
(* C11                                                                     *)
(***************************************************************************)
\* the elements of the first array printed in a text, in order
ArrayItems(text) ==
    IF ~\E a \in 1..Len(text) : text[a] = "[" THEN <<>>
    ELSE LET a == CHOOSE a \in 1..Len(text) :
                     text[a] = "[" /\ \A k \in 1..(a - 1) : text[k] # "["
             b == CHOOSE b \in a..Len(text) :
                     text[b] = "]" /\ \A k \in a..(b - 1) : text[k] # "]"
         IN  SelectSeq(SubSeq(text, a + 1, b - 1), LAMBDA x : x \notin {NL, "  ", ","})

\* C11: a text whose one invocation is {"action":"list_actions"} yields one
\* response, headed list_actions, with one fenced block that lists exactly
\* the names registered in the registry at hand, each once, in ascending
\* order; for a registry of list_actions and describe_action the list is
\* describe_action, list_actions.
C11_ListActionsListsRegistry ==
    /\ (op = "invoke" /\ Requests(message) = <<from_str(ObjList).val>>)
       => /\ response.some
          /\ HeaderNames(response.text) = <<"list_actions">>
          /\ Cardinality({p \in 1..Len(response.text) : response.text[p] = Fence}) = 2
          /\ LET items == ArrayItems(response.text)
             IN  /\ {items[k] : k \in 1..Len(items)} = RegisteredNames
                 /\ Len(items) = Cardinality(RegisteredNames)
                 /\ \A k \in 1..(Len(items) - 1) : StrLess(items[k], items[k + 1])
    /\ ArrayItems(ActionListInvoke(from_str(ObjList).val, <<ActionList, ActionDescribe>>))
          = <<"describe_action", "list_actions">>

\* C11 witness: invoke has answered the one block {"action":"list_actions"}
\* with a registry that holds echo and alpha besides the built-in names
C11_Witness ==
    /\ op = "invoke"
    /\ message = Block(ObjList)
    /\ invoked = <<[action |-> ActionList, object |-> from_str(ObjList).val]>>
    /\ {"echo", "alpha"} \subseteq RegisteredNames

(***************************************************************************)
(* C12                                                                     *)
(***************************************************************************)
\* a candidate without the action field
LacksAction(v) == ~ValueHas(v, "action")

\* the calls made for the dispatched candidates d
FoundCalls(d) ==
    LET f == SelectSeq(d, LAMBDA x : x.found)
    IN  [k \in 1..Len(f) |-> [action |-> f[k].action, object |-> f[k].object]]

\* what invoke returns for the dispatched candidates d
Respond(d) ==
    IF d = <<>> THEN None
    ELSE Some(SeparatedByNL([k \in 1..Len(d) |-> d[k].response], 1))

\* C12: when a candidate of the text has no action field, the calls made and
\* the text returned are those of the same candidates without it: it is not
\* invoked, and there is no header and no error for it.
C12_CandidateWithoutActionSkipped ==
    LET cands == parse(message)
        others == SelectSeq(cands, LAMBDA v : ~LacksAction(v))
        d == Dispatch(actions, others, 1)
    IN  (op = "invoke" /\ \E i \in 1..Len(cands) : LacksAction(cands[i]))
        => /\ invoked = FoundCalls(d)
           /\ response = Respond(d)
           /\ \A k \in 1..Len(invoked) : ~LacksAction(invoked[k].object)
           /\ Len(HeaderNames(response.text)) = Len(WithAction(others, 1))

\* C12 witness: invoke has answered a text with a candidate without action
\* and an invocation of list_actions
C12_Witness ==
    /\ op = "invoke"
    /\ \E i \in 1..Len(parse(message)) : LacksAction(parse(message)[i])
    /\ Len(parse(message)) = 2
    /\ invoked = <<[action |-> ActionList, object |-> from_str(ObjList).val]>>

(***************************************************************************)
(* C13                                                                     *)
(***************************************************************************)
\* the values of the fenced spans of a text that parse, in text order
GoodSpanValues(t) ==
    LET good == SelectSeq(FencedSpans(t), SpanParses)
    IN  [k \in 1..Len(good) |-> from_str(ReplaceNbsp(good[k])).val]

\* C13: when a fenced span of the text does not parse, the calls made and
\* the text returned are those of the spans that parse, in their order, with
\* nothing for the span that does not; when no span parses and the text as
\* a whole does not either, invoke returns None.
C13_UnparsableSpanDropped ==
    LET spans == FencedSpans(message)
        vals == GoodSpanValues(message)
        d == Dispatch(actions, Firsts(vals, 1), 1)
    IN  (op = "invoke" /\ \E i \in 1..Len(spans) : ~SpanParses(spans[i]))
        => /\ vals # <<>> => (invoked = FoundCalls(d) /\ response = Respond(d))
           /\ (vals = <<>> /\ ~from_str(message).ok)
                 => (invoked = <<>> /\ response = None)

\* C13 witness: invoke has answered a text whose first span does not parse
\* and whose second span is an invocation
C13_Witness ==
    /\ op = "invoke"
    /\ Len(FencedSpans(message)) = 2
    /\ ~SpanParses(FencedSpans(message)[1])
    /\ SpanParses(FencedSpans(message)[2])
    /\ Len(invoked) = 1

(***************************************************************************)
(* C14                                                                     *)
(***************************************************************************)
\* C14: the candidates are the text as a whole when the text has no fenced
\* span, and the values of the fenced spans that parse when it has one, also
\* when that span does not parse.
C14_WholeTextOnlyWithoutSpans ==
    LET cands == IF FencedSpans(message) = <<>>
                 THEN (IF from_str(message).ok THEN <<from_str(message).val>> ELSE <<>>)
                 ELSE GoodSpanValues(message)
        d == Dispatch(actions, Firsts(cands, 1), 1)
    IN  op = "invoke" => (invoked = FoundCalls(d) /\ response = Respond(d))


(***************************************************************************)
(* C15                                                                     *)
(***************************************************************************)
\* the invocation v is answered with an error: its name is not registered,
\* or the capability finds an argument missing or wrong, or cannot read
Fails(acts, v) ==
    IF ~Registered(acts, ActionName(v)) THEN TRUE
    ELSE LET impl == Lookup(acts, ActionName(v)).impl IN
         CASE impl = "AlpacaActionDescribe" ->
                  \/ ~IsStr(ValueIndex(v, "action_name"))
                  \/ ~Registered(acts, ValueIndex(v, "action_name").str)
           [] impl = "AlpacaActionReadDirectory" -> Len(v.fields) > 1
           [] impl = "AlpacaActionReadFile" ->
                  \/ ~IsStr(ValueIndex(v, "file_name"))
                  \/ ~read_file(ValueIndex(v, "file_name").str).ok
           [] impl = "AlpacaActionRegex" ->
                  \/ ~IsStr(ValueIndex(v, "pattern"))
                  \/ ~ValueHas(v, "input")
                  \/ ~RegexCompiles(ValueIndex(v, "pattern").str)
                  \/ ValueIndex(v, "input").type \notin {"string", "array"}
           [] OTHER -> FALSE

\* what stands under the header of a response
Body(r) == SubSeq(r, 9, Len(r) - 1)

\* C15: for every invocation that is answered with an error, the response
\* holds the header naming the capability and, right after it, the fenced
\* block of an object {"error": message}.
C15_ErrorsInOneEnvelope ==
    LET rs == Requests(message) IN
    op = "invoke"
    => \A k \in 1..Len(rs) :
          Fails(actions, rs[k])
          => LET r == DispatchOne(actions, rs[k]).response
             IN  /\ OccursFrom(response.text, r, 1)
                 /\ ErrorShape(Body(r)) = "error envelope"

(***************************************************************************)
(* C17                                                                     *)
(***************************************************************************)
\* C17: invoke returns None or Some of a text for every text and every
\* registry; what a registered capability returns, error or not, stands
\* under the header with its name, the responses of all invocations are
\* returned in order, and a text whose invocations all fail yields Some of
\* error texts only.
C17_InvokeNeverFails ==
    LET rs == Requests(message)
        texts == [k \in 1..Len(rs) |-> DispatchOne(actions, rs[k]).response]
    IN  op = "invoke"
        => /\ response = None \/ (response.some /\ response.text # <<>>)
           /\ response.some <=> rs # <<>>
           /\ rs # <<>> => response.text = SeparatedByNL(texts, 1)
           /\ \A k \in 1..Len(rs) :
                 Registered(actions, ActionName(rs[k]))
                 => texts[k] = string_action_response(ActionName(rs[k]),
                                  TraitInvoke(Lookup(actions, ActionName(rs[k])), rs[k], actions))
           /\ (rs # <<>> /\ \A k \in 1..Len(rs) : Fails(actions, rs[k]))
                 => \A k \in 1..Len(rs) : ErrorShape(Body(texts[k])) # "other"

\* C17 witness: invoke has answered a text of two invocations, a read_file
\* of a name that cannot be read and a name that is not registered, with
\* Some of two error texts
C17_Witness ==
    /\ op = "invoke"
    /\ message = Block(ObjReadFileAbsent) \o Block(ObjEcho)
    /\ \A k \in 1..2 : Fails(actions, Requests(message)[k])
    /\ invoked = <<[action |-> ActionReadFile, object |-> from_str(ObjReadFileAbsent).val]>>
    /\ response.some
    /\ Len(HeaderNames(response.text)) = 2


(***************************************************************************)
(* C16                                                                     *)
(***************************************************************************)
\* the current directory after the first k of the invocations rs, when the
\* first of them started in dir
RECURSIVE WorldAfter(_, _, _, _)
WorldAfter(acts, rs, k, dir) ==
    IF k = 0 THEN dir
    ELSE LET before == WorldAfter(acts, rs, k - 1, dir) IN
         IF Registered(acts, ActionName(rs[k]))
         THEN Effect(Lookup(acts, ActionName(rs[k])), rs[k], before)
         ELSE before

\* C16: while invoke runs and when it has returned, the invocations made are
\* the first n of the text in extraction order, the rest still wait, the
\* k-th one was made in the current directory that the k - 1 before it left,
\* a read_directory among them lists that directory, and the current
\* directory is the one the n invocations left.
C16_DispatchSequential ==
    LET rs == WithAction(parse(message), 1)
        n == Len(responses)
    IN  op \in {"invoking", "invoke"}
        => /\ Len(seen) = n
           /\ n <= Len(rs)
           /\ WithAction(json_blocks, 1) = SubSeq(rs, n + 1, Len(rs))
           /\ invoked = CallsOf(actions, SubSeq(rs, 1, n), 1)
           /\ \A k \in 1..n : seen[k] = WorldAfter(actions, rs, k - 1, cwd0)
           /\ cwd = WorldAfter(actions, rs, n, cwd0)
           /\ \A k \in 1..n :
                 rs[k] = from_str(ObjReadDirectory).val
                 => OccursFrom(responses[k],
                               blockify(Listing(FilesOf(seen[k]), DirectoriesOf(seen[k]))), 1)
           /\ op = "invoke"
                 => /\ n = Len(rs)
                    /\ response = IF n = 0 THEN None ELSE Some(SeparatedByNL(responses, 1))

\* C16 witness: invoke has returned for a text that changes to the
\* subdirectory and then reads the directory: the second invocation was
\* made in the subdirectory and lists its files
C16_Witness ==
    /\ op = "invoke"
    /\ message = Block(ObjCdAlpha) \o Block(ObjReadDirectory)
    /\ cwd0 = "root"
    /\ seen = <<"root", "alpha">>
    /\ Len(invoked) = 2
    /\ OccursFrom(response.text, blockify(Listing(<<"note", "echo">>, <<>>)), 1)


(***************************************************************************)
(* C18                                                                     *)
(***************************************************************************)
\* C18: the tool calls of a dispatch are the objects of the tool_call spans
\* that parse, one for each such span, equal ones included, in the order of
\* the spans; nothing is invoked; the one span
\* {"function":"dir","arguments":{}} gives one call whose function is dir
\* and whose arguments are an empty object.
C18_ToolCallsInOrder ==
    LET texts == find_tool_calls(message, 1)
        good == SelectSeq(texts, LAMBDA x : from_str(x).ok)
    IN  op = "tool_dispatch"
        => /\ results = texts
           /\ Len(tool_calls) = Len(good)
           /\ \A k \in 1..Len(good) : tool_calls[k] = from_str(good[k]).val
           /\ invoked = <<>> /\ response = None /\ cwd = cwd0
           /\ message = ToolBlock(ObjToolDir)
                 => /\ Len(tool_calls) = 1
                    /\ function(tool_calls[1]) = Some(<<"dir">>)
                    /\ ValueIndex(tool_calls[1], "arguments") = JObject(<<>>)
                    /\ \A k \in StrLits : argument(tool_calls[1], k) = NoValue
           /\ message = ToolBlock(ObjToolDir) \o ToolBlock(ObjToolDir)
                 => Len(tool_calls) = 2

\* C18 witness: a dispatch has been built from a text with the same tool
\* call twice and holds two equal tool calls
C18_Witness ==
    /\ op = "tool_dispatch"
    /\ message = ToolBlock(ObjToolDir) \o ToolBlock(ObjToolDir)
    /\ Len(tool_calls) = 2
    /\ tool_calls[1] = tool_calls[2]
    /\ function(tool_calls[2]) = Some(<<"dir">>)

(***************************************************************************)
(* C19                                                                     *)
(***************************************************************************)
\* a start marker stands at place q of the text
StartAt(text, q) == q < Len(text) /\ text[q] = Fence /\ text[q + 1] = ToolTag

\* what holds of the scan at every moment: every text found lies between a
\* start marker and the first end marker after it, no start marker before
\* it was passed over, the spans follow one another without overlap, and
\* the cursor stands right behind the end marker of the last span; when the
\* scan is over, there is no start marker from the cursor on, or none with
\* an end marker after it
C19_ScanInvariant ==
    op \in {"scanning", "found", "tool_dispatch"}
    => /\ Len(matched) = Len(results)
       /\ \A k \in 1..Len(matched) :
             LET m == matched[k]
                 before == IF k = 1 THEN 0 ELSE matched[k - 1].to
             IN  /\ before < m.from
                 /\ StartAt(message, m.from)
                 /\ \A q \in (before + 1)..(m.from - 1) : ~StartAt(message, q)
                 /\ m.from + 2 <= m.to /\ m.to <= Len(message)
                 /\ message[m.to] = Fence
                 /\ \A q \in (m.from + 2)..(m.to - 1) : message[q] # Fence
                 /\ results[k] = TrimWs(SubSeq(message, m.from + 2, m.to - 1))
       /\ search_start = IF matched = <<>> THEN 1 ELSE matched[Len(matched)].to + 1
       /\ search_start <= Len(message) + 1
       /\ op \in {"found", "tool_dispatch"}
             => \/ \A q \in search_start..Len(message) : ~StartAt(message, q)
                \/ \E q \in search_start..Len(message) :
                      /\ StartAt(message, q)
                      /\ \A r \in search_start..(q - 1) : ~StartAt(message, r)
                      /\ \A j \in (q + 2)..Len(message) : message[j] # Fence

\* every pass of the loop moves the cursor forward and keeps the texts found
C19_CursorForward ==
    [][(op = "scanning" /\ op' = "scanning")
       => \/ UNCHANGED <<search_start, results>>
          \/ /\ search_start' > search_start
             /\ Len(results') = Len(results) + 1
             /\ SubSeq(results', 1, Len(results)) = results]_vars

\* C19: the scan keeps its invariant, every pass moves the cursor forward
\* past the end marker of the span it found, and the scan of every text
\* comes to its end.
C19_ScanAdvancesAndTerminates ==
    /\ []C19_ScanInvariant
    /\ C19_CursorForward
    /\ (op = "scanning") ~> (op = "found")

\* C19 witness: a scan is over that found one span and then a start marker
\* with no end marker after it
C19_Witness ==
    /\ op = "found"
    /\ Len(matched) = 1
    /\ results = <<ObjToolDir>>
    /\ \E q \in search_start..Len(message) : StartAt(message, q)

(***************************************************************************)
(* C20                                                                     *)
(***************************************************************************)
\* no call of the setter named, with the key named, since the tool call was made
NeverSet(setter, k) ==
    ~\E a \in added_args : a.setter = setter /\ a.key = k

\* C20: for a tool call, set_function(f) and add_argument(k, v) return, and
\* return the tool call itself; after set_function(f) function() is Some(f)
\* and after add_argument(k, v) argument(k) is Some(v), whatever was set
\* under the same key before; function() and argument(k) are None as long
\* as the constructor gave none and the setter was not called with that key.
C20_SettersThenGetters ==
    /\ op # "panic"
    /\ op = "set_function"
          => function(object) = Some(<<key>>) /\ got = SomeValue(object)
    /\ op = "add_argument"
          => argument(object, key) = SomeValue(value) /\ got = SomeValue(object)
    /\ op = "function" => got = function(object)
    /\ op = "argument" => got = argument(object, key)
    /\ origin # "none" /\ function(object0) = None /\ NeverSet("set_function", "function")
          => function(object) = None
    /\ \A k \in ArgNames :
          origin # "none" /\ argument(object0, k) = NoValue /\ NeverSet("add_argument", k)
             => argument(object, k) = NoValue

(***************************************************************************)
(* C21                                                                     *)
(***************************************************************************)
\* the arguments mapping of a tool call: Some(the value under "arguments")
\* or None
arguments(o) ==
    IF ValueHas(o, "arguments") THEN SomeValue(ValueIndex(o, "arguments")) ELSE NoValue

\* C21: the text to_string_pretty gives for a tool call, made by new or
\* from_str and changed by set_function and add_argument, is parsed by
\* from_str into a tool call with the same function name and the same
\* arguments mapping.
C21_PrettyTextRoundTrips ==
    op = "to_string_pretty"
       => /\ from_str(ret).ok
          /\ function(from_str(ret).val) = function(object)
          /\ arguments(from_str(ret).val) = arguments(object)

\* C21 witness: the text of a tool call with a function name and two
\* arguments, one of them a string with a line feed and a double quote in it
C21_Witness ==
    /\ op = "to_string_pretty"
    /\ function(object) = Some(<<"dir">>)
    /\ argument(object, "file_name") = SomeValue(JString(<<Prose, NL, Quote>>))
    /\ argument(object, "pattern") = SomeValue(JNumber(<<"5">>))
    /\ from_str(ret).ok

(***************************************************************************)
(* C22                                                                     *)
(***************************************************************************)
\* the call of process_invocation made last, and the one before it
LastCall == calls[Len(calls)]
CallBefore == calls[1]

\* C22: a call of process_invocation whose result carries an error leaves
\* current_dir as it was, and a get_current_directory that follows it
\* reports the directory held before that call.
C22_ErrorLeavesCurrentDir ==
    /\ calls # <<>> /\ ValueHas(LastCall.result, "error")
          => LastCall.after = LastCall.before /\ current_dir = LastCall.before
    /\ Len(calls) > 1 /\ ValueHas(CallBefore.result, "error")
       /\ ValueIndex(LastCall.request, "function") = JString(<<"get_current_directory">>)
          => LastCall.result = invoke_get_current_directory(CallBefore.before)

\* C22 witness: a change_directory fails to resolve a directory that was
\* there, and the get_current_directory after it reports the directory held
\* before
C22_Witness ==
    /\ Len(calls) > 1
    /\ CallBefore.request = Request("change_directory", SubdirArgs(JString(<<"sub">>)))
    /\ CallBefore.before = "/home"
    /\ ValueIndex(CallBefore.result, "error")
          = JString(<<"Failed to resolve path: '", "err", "'.">>)
    /\ LastCall.request = RequestBare("get_current_directory")
    /\ LastCall.result = invoke_get_current_directory("/home")

(***************************************************************************)
(* C23                                                                     *)
(***************************************************************************)
\* the name a change_directory request asks for, "" if it asks for none
AskedName(request) ==
    IF /\ ValueIndex(request, "function") = JString(<<"change_directory">>)
       /\ IsStr(ValueIndex(ValueIndex(request, "arguments"), "subdir_name"))
    THEN ValueIndex(ValueIndex(request, "arguments"), "subdir_name").str[1]
    ELSE ""

\* the call was a change_directory to an existing subdirectory that succeeded
EnteredSubdirectory(call) ==
    /\ AskedName(call.request) \notin {"", ".."}
    /\ PathEntry(call.before, AskedName(call.request)).kind = "dir"
    /\ ValueHas(call.result, "ok")

\* the call was a change_directory with ".." that succeeded
WentUp(call) == AskedName(call.request) = ".." /\ ValueHas(call.result, "ok")

\* what holds of a change_directory that succeeds and of the
\* get_current_directory calls after it
ChangeIsReported ==
    /\ calls # <<>> /\ EnteredSubdirectory(LastCall)
          => /\ current_dir = PathEntry(LastCall.before, AskedName(LastCall.request)).canonical
             /\ ValueIndex(LastCall.result, "ok") = CurrentDirObject(current_dir)
    /\ calls # <<>>
       /\ ValueIndex(LastCall.request, "function") = JString(<<"get_current_directory">>)
          => /\ ValueIndex(LastCall.result, "ok") = CurrentDirObject(current_dir)
             /\ current_dir = LastCall.before

EnvFunctions == {<<"get_current_directory">>, <<"list_directory">>, <<"change_directory">>}

\* the request with an empty arguments object put in
WithEmptyArguments(request) ==
    JObject(MapInsert(request.fields, "arguments", JObject(<<>>)))

\* C24: process_invocation returns a JSON value; for a request without a
\* function field that is a string it is the error "Missing required field
\* 'function' ...", for a function name it does not know the error
\* "Unsupported function: ...", for a request without arguments what the
\* request with empty arguments gets, and for a change_directory that
\* failed an error object whose function is change_directory.
C24_ProcessInvocationAnswers ==
    calls # <<>> =>
    LET request == LastCall.request
        result == LastCall.result
        named == IsStr(ValueIndex(request, "function"))
    IN  /\ result.type = "object"
        /\ ~named
              => ValueIndex(result, "error")
                    = JString(<<"Missing required field 'function' in request.">>)
        /\ named /\ ValueIndex(request, "function").str \notin EnvFunctions
              => /\ IsStr(ValueIndex(result, "error"))
                 /\ ValueIndex(result, "error").str[1] = "Unsupported function: '"
        /\ named /\ ~ValueHas(request, "arguments")
              => \E resolves \in BOOLEAN :
                    process_invocation(LastCall.before, WithEmptyArguments(request), resolves)
                       = [current_dir |-> LastCall.after, value |-> result]
        /\ (ValueIndex(request, "function") = JString(<<"change_directory">>)
               /\ ~ValueHas(result, "ok"))
              => /\ IsStr(ValueIndex(result, "error"))
                 /\ ValueIndex(result, "function") = JString(<<"change_directory">>)

\* C24 witness: a change_directory request without arguments was answered
\* with the error of a missing subdir_name
C24_Witness ==
    /\ calls # <<>>
    /\ LastCall.request = RequestBare("change_directory")
    /\ LastCall.result
          = ChangeDirectoryError(<<"Missing required argument 'subdir_name'.">>)
    /\ ValueIndex(LastCall.result, "function") = JString(<<"change_directory">>)

(***************************************************************************)
(* C25                                                                     *)
(***************************************************************************)
\* a function is registered under the name
FunctionRegistered(fns, function_name) == \E i \in 1..Len(fns) : fns[i].name = function_name

\* the function registered under the name
FunctionNamed(fns, function_name) ==
    fns[CHOOSE i \in 1..Len(fns) : fns[i].name = function_name]

\* C25: call_function(name, arguments) returns Some(what the function
\* returned) when a function is registered under the name, and None when
\* there is none.
C25_NoneForUnknownFunction ==
    op = "call_function"
       => /\ FunctionRegistered(functions, arg[1]) /\ execute(FunctionNamed(functions, arg[1]), call_args).some
                => response = execute(FunctionNamed(functions, arg[1]), call_args)
          /\ ~FunctionRegistered(functions, arg[1]) => response = None

MarkerAt(t, tag, q) == q < Len(t) /\ t[q] = Fence /\ t[q + 1] = tag

\* the spans of a text for a tag: each from the first start marker at or
\* after the cursor to the first fence after that marker, the cursor moving
\* behind that fence
RECURSIVE SpanPlaces(_, _, _)
SpanPlaces(t, tag, cursor) ==
    LET starts == {q \in cursor..Len(t) : MarkerAt(t, tag, q)} IN
    IF starts = {} THEN <<>>
    ELSE LET from == CHOOSE q \in starts : \A r \in starts : q <= r
             ends == {e \in (from + 2)..Len(t) : t[e] = Fence}
         IN  IF ends = {} THEN <<>>
             ELSE LET to == CHOOSE e \in ends : \A r \in ends : e <= r
                  IN  <<[from |-> from, to |-> to]>> \o SpanPlaces(t, tag, to + 1)

\* the texts between the markers of the spans, trimmed
SpanTexts(t, places) ==
    [k \in 1..Len(places) |-> TrimWs(SubSeq(t, places[k].from + 2, places[k].to - 1))]

\* no span holds a fence, each span begins behind the end of the one before,
\* and no span begins at a start marker that stands in an earlier span or is
\* its end
NoSpanInsideSpan(t, tag, places) ==
    /\ \A k \in 1..Len(places) :
          \A e \in (places[k].from + 2)..(places[k].to - 1) : t[e] # Fence
    /\ \A k \in 1..(Len(places) - 1) : places[k + 1].from > places[k].to
    /\ \A k \in 1..Len(places) :
          \A q \in (places[k].from + 1)..places[k].to :
             MarkerAt(t, tag, q) => \A m \in 1..Len(places) : places[m].from # q

\* C26: a start marker before the end marker of an open span opens no span:
\* the first end marker after the start of a span closes it, the scan goes on
\* strictly behind that end marker and what it went over is not scanned
\* again, for the json spans of invoke as for the tool_call spans of
\* find_tool_calls.
C26_OpenSpanClosedByFirstEndMarker ==
    /\ op = "invoke"
          => /\ FencedSpans(message) = SpanTexts(message, SpanPlaces(message, Tag, 1))
             /\ NoSpanInsideSpan(message, Tag, SpanPlaces(message, Tag, 1))
    /\ op \in {"found", "tool_dispatch"}
          => /\ matched = SpanPlaces(message, ToolTag, 1)
             /\ results = SpanTexts(message, matched)
             /\ NoSpanInsideSpan(message, ToolTag, matched)

\* C26 witness: invoke was given a start marker right before a whole json
\* block: the fence of the block closed the span the marker opened, and the
\* request in the block was not seen
C26_Witness ==
    /\ op = "invoke"
    /\ message = <<Fence, Tag>> \o Block(ObjEcho)
    /\ FencedSpans(message) = <<<<>>>>
    /\ response = None

(***************************************************************************)
(* C29                                                                     *)
(***************************************************************************)
\* a candidate whose action field is there and is no string
ActionNotString(v) == ValueHas(v, "action") /\ ~IsStr(ValueIndex(v, "action"))

\* the candidate without its action field
WithoutAction(v) ==
    JObject(SelectSeq(v.fields, LAMBDA m : m.key # "action"))

\* C29: a candidate whose action field is no string is treated as one
\* without the field: the calls made and the text returned are those of the
\* candidates with that field taken away, no call and no header is for such
\* a candidate, and invoke returns None when all candidates are of this kind.
C29_NonStringActionSkipped ==
    LET cands == parse(message)
        stripped == [k \in 1..Len(cands) |->
                       IF ActionNotString(cands[k]) THEN WithoutAction(cands[k])
                       ELSE cands[k]]
        d == Dispatch(actions, stripped, 1)
    IN  (op = "invoke" /\ \E i \in 1..Len(cands) : ActionNotString(cands[i]))
        => /\ invoked = FoundCalls(d)
           /\ response = Respond(d)
           /\ \A k \in 1..Len(invoked) : ~ActionNotString(invoked[k].object)
           /\ Len(HeaderNames(response.text))
                 = Len(SelectSeq(cands, LAMBDA v : ~ActionNotString(v) /\ ~LacksAction(v)))
           /\ (\A i \in 1..Len(cands) : ActionNotString(cands[i])) => response = None

\* C29 witness: invoke has answered a text whose candidates have an array
\* and a boolean for action, with None
C29_Witness ==
    /\ op = "invoke"
    /\ message = Block(ObjActionArray) \o Block(ObjActionTrue)
    /\ Len(parse(message)) = 2
    /\ \A i \in 1..Len(parse(message)) : ActionNotString(parse(message)[i])
    /\ response = None

(***************************************************************************)
(* C30                                                                     *)
(***************************************************************************)
\* the fields a tool call may hold
ToolCallFields == {"function", "arguments"}

\* what holds after from_str and after a setter
SettersComplete ==
    /\ op = "tool_call_from_str" => from_str(message).ok /\ object = from_str(message).val
    /\ op = "tool_call_err" => ~from_str(message).ok
    /\ op # "panic"
    /\ op = "set_function" => function(object) = Some(<<key>>)
    /\ op = "add_argument" => argument(object, key) = SomeValue(value)

\* a setter leaves the other fields and the other arguments as they were
SettersKeepOthers ==
    /\ op' = "set_function"
          => \A k \in ToolCallFields \ {"function"} :
                ValueIndex(object', k) = ValueIndex(object, k)
    /\ op' = "add_argument"
          => /\ \A k \in ToolCallFields \ {"arguments"} :
                   ValueIndex(object', k) = ValueIndex(object, k)
             /\ \A k \in ArgNames \ {key'} : argument(object', k) = argument(object, k)

\* C30: from_str returns Ok for the texts that are JSON and Err for the
\* others; on a tool call from new or from an Ok of from_str, set_function
\* and add_argument complete, leave the other fields and the other arguments
\* as they were, and function() and argument(key) return what was set.
C30_SettersCompleteAndKeepOthers ==
    []SettersComplete /\ [][SettersKeepOthers]_vars

(***************************************************************************)
(* C27                                                                     *)
(***************************************************************************)
\* the model turns that invoke answered with Some
TurnsAnswered == {i \in 1..Len(turns) : turns[i].response.some}

\* the user messages main has put in the session since the loop began
UsersAppended == SubSeq(session, 3, Len(session))

\* main is over: after the loop, or by a panic
MainOver == pc \in {"done", "panic"}

\* what holds of the loop at every moment
LoopCounts ==
    /\ iteration <= MaxTurns
    /\ Len(turns) <= MaxTurns
    /\ Len(turns) = IF pc \in {"invoke", "panic"} THEN iteration - 1 ELSE iteration
    /\ \A i \in 1..Len(turns) :
          ~turns[i].response.some => i = Len(turns) /\ pc = "done"
    /\ (pc = "done" /\ Len(turns) < MaxTurns)
          => Len(turns) > 0 /\ ~turns[Len(turns)].response.some
    /\ Len(UsersAppended) = Cardinality(TurnsAnswered)
    /\ \A i \in TurnsAnswered :
          UsersAppended[Cardinality({j \in TurnsAnswered : j <= i})]
             = UserMessage(turns[i].response.text)
    /\ step_count = Cardinality(TurnsAnswered)

\* what a step of the loop does to the session
LoopAppendsOne ==
    pc = "invoke" /\ pc' # "invoke"
       => /\ turns' = Append(turns, [text |-> message, response |-> invoke(actions, message)])
          /\ IF invoke(actions, message).some
             THEN session' = Append(session, UserMessage(invoke(actions, message).text))
             ELSE session' = session /\ pc' = "done"

\* C27: the loop of main takes at most 11 model turns and main ends; no turn
\* follows one where invoke returned None; each turn where invoke returned
\* Some puts exactly one user message, the response, in the session, and the
\* other turns put none; step_count is the number of turns where invoke
\* returned Some.
C27_LoopTerminates ==
    /\ []LoopCounts
    /\ [][LoopAppendsOne]_vars
    /\ <>MainOver

\* main ended at the third turn, the first where invoke returned None, with
\* two user messages appended and step_count 2
C27_Witness ==
    /\ pc = "done"
    /\ Len(turns) = 3
    /\ turns[1].response.some /\ turns[2].response.some
    /\ turns[3].response = None
    /\ Len(UsersAppended) = 2
    /\ step_count = 2

====
